---- MODULE Spec2Model ----
(***************************************************************************)
(* A model of newsBot: the SQLite-backed news store (database/),           *)
(* the concurrent feed parser (parser/rss_parser.py) and the scheduler     *)
(* (bot/scheduler.py).                                                     *)
(*                                                                         *)
(* Strings are TLA+ strings, \o is Python's string concatenation.          *)
(* Python's None, as the return value of add_news, is the number 0: row    *)
(* ids of an AUTOINCREMENT column start at 1.                              *)
(***************************************************************************)
EXTENDS Integers, Sequences, FiniteSets, TLC

VARIABLES
    \* ---- the news table (database/db_manager.py)
    rows,        \* the committed rows of table news
    nextId,      \* the next AUTOINCREMENT id (ids are never reused)
    prev, last,  \* history: the last two completed store operations
    \* ---- concurrent add_news callers on one store
    cpc,         \* caller -> "idle" | "connected" | "inserted" | "returned"
    cnews,       \* caller -> the News object it was called with
    cret,        \* caller -> what its add_news returned
    lock,        \* the caller holding SQLite's write lock, 0 when free
    pend,        \* caller -> the rows of its open transaction
    base,        \* history: the committed rows when the round's first call began
    overlapped,  \* history: two calls of this round were in flight together
    \* ---- one run of RSSParser.parse_all_sources
    ppc,         \* "idle" | "gathering" | "returned" | "used" | "top saved"
    tpc,         \* source -> "new" | "get" | "retry_sleep" | "done": its _parse_source task
    attempt,     \* source -> the loop variable of fetch_feed
    tres,        \* source -> the result asyncio.gather holds for the task
    served,      \* history: source -> the body a 200 response delivered, or why none
    all_news,    \* the list parse_all_sources returned
    praised,     \* an exception left parse_all_sources
    slept,       \* history: source -> the asyncio.sleep arguments of its fetch_feed
    fkind,       \* history: source -> how the last attempt failed when all did
    content,     \* source -> the string fetch_feed returned to _parse_source
    selected,    \* the top news the caller of this run selected
    offered,     \* history: the entries the caller of this run called add_news with
    finished,    \* history: the sources of this run in the order in which their
                 \* tasks finished, kept where the run is followed on its own
    \* ---- one NewsScheduler (bot/scheduler.py)
    mode,        \* self.mode: "manual" or anything else
    interval,    \* self.interval
    is_running,  \* self.is_running
    spc,         \* start() call -> "new" | "fetching" | "delivering" | "sleeping" | "returned"
    loopOf,      \* start() call -> the loop it entered: "none" | "interval" | "daily"
    sleepArg,    \* start() call -> the asyncio.sleep it is in: [kind, secs]
    top_news,    \* start() call -> the list its cycle handed to post_digest
    failed,      \* history: start() call -> what went wrong since its last cycle began
    stopCalled,  \* history: stop() has been called
    period,      \* start() call -> the period label its cycle handed to post_digest
    calls,       \* history: start() call -> the post_digest calls its cycle in
                 \* progress has made (0 when it is not in a cycle)
    \* ---- the daily target computation, on its own
    tod,         \* datetime.now() as seconds after midnight
    wait,        \* wait_seconds, -1 before it is computed
    \* ---- the daily loop followed on a clock
    dloop,       \* [pc, clock, computed_at, wake_at, cycle_started, prev_started,
                 \*  cycle_ended]: where _run_daily_schedule is, the time in seconds
                 \* since midnight of day 0, and history: when the sleep in progress
                 \* was computed and is due, when the last two cycles started and
                 \* when the last one ended (-1: never)
    \* ---- one RankingEngine and one News object it rates
    source_weights, \* self.source_weights
    entry,          \* the News object; entry.rating is what the last call left there
    length_arg,     \* the argument article_length
    rnow,           \* datetime.now() of the calls
    ratings,          \* history: the values calculate_rating returned, in call order
    \* ---- one call of a component score of the RankingEngine, or of post_digest
    scall,       \* the call: [fn, ...arguments]
    sret,        \* what it returned
    \* ---- the pipeline run twice on the same two entries
    pair,        \* the merged list of the two entries
    runs         \* history: per run, what it ranked and what add_news returned

storeVars == <<rows, nextId, prev, last>>
concVars  == <<cpc, cnews, cret, lock, pend, base, overlapped>>
parseVars == <<ppc, tpc, attempt, tres, served, all_news, praised,
               slept, fkind, content, selected, offered, finished>>
schedVars == <<mode, interval, is_running, spc, loopOf, sleepArg, top_news, failed, stopCalled,
               period, calls>>
calcVars == <<dloop, tod, wait, source_weights, entry, length_arg, rnow, ratings, scall, sret,
              pair, runs>>
vars == <<storeVars, concVars, parseVars, schedVars, calcVars>>

None == 0

(***************************************************************************)
(* Bounds and inputs.                                                      *)
(***************************************************************************)
MaxId == 3          \* add_news is not called once this many ids were given out
Callers == {1, 2}   \* the two concurrent callers of add_news

Titles == {"a", "ab"}
Links  == {"", "b"}            \* '' is parse_feed_content's default link
Descriptions == {"", "b"}

\* Two bundles of metadata that differ in every field outside (title, link,
\* description).
Metas ==
    { [source |-> "Habr",   language |-> "ru", published_at |-> 1, parsed_at |-> 2, rating |-> 0],
      [source |-> "Dev.to", language |-> "en", published_at |-> 3, parsed_at |-> 4, rating |-> 7] }

(***************************************************************************)
(* database/models.py                                                      *)
(***************************************************************************)
\* News.calculate_hash: sha256 of the f-string title+link+description.  The
\* digest is taken as injective, so it is represented by the string it is
\* computed from.
calculate_hash(title, link, description) ==
    title \o link \o description

\* News(...) as parse_feed_content constructs it: content_hash is not passed,
\* so __post_init__ computes it.
MakeNews(title, link, description, m) ==
    [ title |-> title, link |-> link, description |-> description,
      source |-> m.source, published_at |-> m.published_at,
      language |-> m.language, rating |-> m.rating,
      parsed_at |-> m.parsed_at,
      content_hash |-> calculate_hash(title, link, description) ]

NewsInputs ==
    { MakeNews(t, l, d, m) : t \in Titles, l \in Links, d \in Descriptions, m \in Metas }

SameArticle(a, b) ==
    a.title = b.title /\ a.link = b.link /\ a.description = b.description

(***************************************************************************)
(* database/db_manager.py                                                  *)
(***************************************************************************)
\* The UNIQUE constraints of table news: title, link, content_hash.
UniqueViolation_noTitle(n, rs) ==
    \E r \in rs : r.link = n.link \/ r.content_hash = n.content_hash

UniqueViolation_never(n, rs) == FALSE

UniqueViolation(n, rs) ==
    \E r \in rs : \/ r.title = n.title
                  \/ r.link = n.link
                  \/ r.content_hash = n.content_hash

NewRow(n, id) ==
    [ id |-> id, title |-> n.title, link |-> n.link,
      description |-> n.description, source |-> n.source,
      published_at |-> n.published_at, parsed_at |-> n.parsed_at,
      language |-> n.language, rating |-> n.rating,
      content_hash |-> n.content_hash ]

\* cursor.execute("INSERT INTO news ...") against the rows rs the statement
\* sees, with id the next AUTOINCREMENT value.
InsertNews(n, rs, id) ==
    IF UniqueViolation(n, rs)
    THEN [exc |-> "IntegrityError", rows |-> rs, lastrowid |-> None]
    ELSE [exc |-> "none", rows |-> rs \cup {NewRow(n, id)}, lastrowid |-> id]

\* add_news run to completion on the committed rows rs: get_connection
\* commits when the block ends normally, rolls back and re-raises otherwise;
\* add_news turns sqlite3.IntegrityError into the return value None.
add_news_replace(n, rs, id) ==
    [ret |-> id, raised |-> FALSE, nextId |-> id + 1,
     rows |-> {r \in rs : ~UniqueViolation(n, {r})} \cup {NewRow(n, id)}]

add_news(n, rs, id) ==
    LET r == InsertNews(n, rs, id) IN
    IF r.exc = "IntegrityError"
    THEN [ret |-> None, raised |-> FALSE, rows |-> rs, nextId |-> id]
    ELSE [ret |-> r.lastrowid, raised |-> FALSE, rows |-> r.rows, nextId |-> id + 1]

NoOp == [op |-> "none", news |-> MakeNews("", "", "", CHOOSE m \in Metas : TRUE),
         ret |-> None, raised |-> FALSE]

\* One complete call of DatabaseManager.add_news.
AddNews(n) ==
    LET r == add_news(n, rows, nextId) IN
    /\ nextId <= MaxId
    /\ rows' = r.rows
    /\ nextId' = r.nextId
    /\ prev' = last
    /\ last' = [op |-> "add_news", news |-> n, ret |-> r.ret, raised |-> r.raised]
    /\ UNCHANGED <<concVars, parseVars, schedVars, calcVars>>

\* One complete call of DatabaseManager.clear_all_news: DELETE FROM news.
\* The AUTOINCREMENT counter lives in sqlite_sequence and is not reset.
ClearAllNews ==
    /\ rows' = {}
    /\ nextId' = nextId
    /\ prev' = last
    /\ last' = [NoOp EXCEPT !.op = "clear_all_news", !.ret = Cardinality(rows)]
    /\ UNCHANGED <<concVars, parseVars, schedVars, calcVars>>

StoreInit ==
    /\ rows = {}
    /\ nextId = 1
    /\ prev = NoOp
    /\ last = NoOp

ConcIdle ==
    /\ cpc = [c \in Callers |-> "idle"]
    /\ cnews = [c \in Callers |-> NoOp.news]
    /\ cret = [c \in Callers |-> None]
    /\ lock = 0
    /\ pend = [c \in Callers |-> {}]
    /\ base = {}
    /\ overlapped = FALSE

NextStore ==
    \/ \E n \in NewsInputs : AddNews(n)
    \/ ClearAllNews

(***************************************************************************)
(* Two callers of add_news on one store, statement by statement.  Each     *)
(* call opens its own connection (get_connection).  The INSERT runs in a   *)
(* transaction that sqlite3 opens implicitly; it takes the database's      *)
(* write lock, which a second writer waits for, and the lock is held until *)
(* commit or rollback.  Calls come in rounds: every caller calls once,     *)
(* then the round is reset; clear_all_news runs between rounds.            *)
(***************************************************************************)
AllIdle == \A c \in Callers : cpc[c] = "idle"
AllReturned == \A c \in Callers : cpc[c] = "returned"

\* An INSERT can proceed when no other connection holds the write lock.
LockFree_always(c) == TRUE

LockFree(c) == lock = 0

\* add_news(n) is called: sqlite3.connect.
CallAddNews(c, n) ==
    /\ cpc[c] = "idle"
    /\ nextId <= MaxId
    /\ cpc' = [cpc EXCEPT ![c] = "connected"]
    /\ cnews' = [cnews EXCEPT ![c] = n]
    /\ base' = IF AllIdle THEN rows ELSE base
    /\ overlapped' = IF AllIdle THEN FALSE
                     ELSE overlapped \/ \E d \in Callers \ {c} :
                                            cpc[d] \in {"connected", "inserted"}
    /\ UNCHANGED <<storeVars, cret, lock, pend, parseVars, schedVars, calcVars>>

\* cursor.execute(INSERT): a UNIQUE violation raises IntegrityError, the
\* connection rolls back and add_news returns None; otherwise the new row is
\* in the open transaction and lastrowid is its id.
ExecuteInsert(c) ==
    /\ cpc[c] = "connected"
    /\ LockFree(c)
    /\ LET r == InsertNews(cnews[c], rows, nextId) IN
       IF r.exc = "IntegrityError"
       THEN /\ cpc' = [cpc EXCEPT ![c] = "returned"]
            /\ cret' = [cret EXCEPT ![c] = None]
            /\ UNCHANGED <<lock, pend>>
       ELSE /\ cpc' = [cpc EXCEPT ![c] = "inserted"]
            /\ cret' = [cret EXCEPT ![c] = r.lastrowid]
            /\ lock' = c
            /\ pend' = [pend EXCEPT ![c] = r.rows \ rows]
    /\ UNCHANGED <<storeVars, cnews, base, overlapped, parseVars, schedVars, calcVars>>

\* The with-block ends: conn.commit(), conn.close(), return news_id.
Commit(c) ==
    /\ cpc[c] = "inserted"
    /\ rows' = rows \cup pend[c]
    /\ nextId' = nextId + 1
    /\ lock' = 0
    /\ pend' = [pend EXCEPT ![c] = {}]
    /\ cpc' = [cpc EXCEPT ![c] = "returned"]
    /\ UNCHANGED <<prev, last, cnews, cret, base, overlapped, parseVars, schedVars, calcVars>>

\* Both calls have returned: the next round starts from idle callers.
ResetRound ==
    /\ AllReturned
    /\ cpc' = [c \in Callers |-> "idle"]
    /\ cret' = [c \in Callers |-> None]
    /\ cnews' = [c \in Callers |-> NoOp.news]
    /\ base' = {}
    /\ overlapped' = FALSE
    /\ UNCHANGED <<storeVars, lock, pend, parseVars, schedVars, calcVars>>

\* clear_all_news between two rounds (prev and last belong to SpecStore).
ClearBetweenRounds ==
    /\ AllIdle
    /\ rows # {}
    /\ rows' = {}
    /\ UNCHANGED <<nextId, prev, last, concVars, parseVars, schedVars, calcVars>>

NextConc ==
    \/ \E c \in Callers, n \in NewsInputs : CallAddNews(c, n)
    \/ \E c \in Callers : ExecuteInsert(c)
    \/ \E c \in Callers : Commit(c)
    \/ ResetRound
    \/ ClearBetweenRounds

(***************************************************************************)
(* config/sources.py, config/settings.py                                   *)
(***************************************************************************)
\* Three of the six entries of RSS_SOURCES, in configuration order (weights
\* in tenths).
RSS_SOURCES ==
    << [name |-> "Hacker News", language |-> "en", weight |-> 90],
       [name |-> "GitHub Blog", language |-> "en", weight |-> 80],
       [name |-> "Habr",        language |-> "ru", weight |-> 90] >>

SourceIds == DOMAIN RSS_SOURCES

MAX_RETRIES == 3
RETRY_DELAY == 2

(***************************************************************************)
(* parser/rss_parser.py                                                    *)
(***************************************************************************)
\* Entries as feedparser delivers them; titles and summaries are plain text,
\* which strip_html_tags returns as it is.  A malformed entry is one whose
\* processing in the loop of parse_feed_content raises.  dates holds the date
\* fields the entry has (entry.get gives None for the others), as strings.
\* Timestamps are seconds.
RawA   == [title |-> "ai code", link |-> "b", summary |-> "",  malformed |-> FALSE,
           dates |-> [published |-> "1970-01-02"]]
RawB   == [title |-> "ab",      link |-> "",  summary |-> "",  malformed |-> FALSE,
           dates |-> [published |-> "", updated |-> "1970-01-01"]]
RawBad == [title |-> "a",       link |-> "",  summary |-> "b", malformed |-> TRUE,
           dates |-> [published |-> "1970-01-02"]]

\* Response bodies of a 200 answer: text is what response.text() returns,
\* entries what feedparser.parse finds in it, crash whether feedparser.parse
\* raises on it.
Bodies ==
    { [text |-> "",    entries |-> << >>,               crash |-> FALSE],
      [text |-> "xml", entries |-> << >>,               crash |-> FALSE],
      [text |-> "xml", entries |-> <<RawA>>,            crash |-> FALSE],
      [text |-> "xml", entries |-> <<RawA, RawA>>,      crash |-> FALSE],
      [text |-> "xml", entries |-> <<RawA, RawBad, RawB>>, crash |-> FALSE],
      [text |-> "xml", entries |-> << >>,               crash |-> TRUE] }

NoBody == [text |-> "", entries |-> << >>, crash |-> FALSE]

\* Values of the history variable served for a source that got no body.
NotServed == [text |-> "not served", entries |-> << >>, crash |-> FALSE]
AllFailed == [text |-> "all attempts failed", entries |-> << >>, crash |-> FALSE]

\* How one attempt of fetch_feed can fail: asyncio.TimeoutError, a status
\* other than 200, any other exception of the request.
AttemptFailures == {"timeout", "status", "error"}

\* date_parser.parse(date_str): the datetime a date string stands for (seconds
\* since 1970-01-01 00:00), or an exception.
date_parser_parse(date_str) ==
    IF date_str = "1970-01-01" THEN [raises |-> FALSE, value |-> 0]
    ELSE IF date_str = "1970-01-02" THEN [raises |-> FALSE, value |-> 86400]
    ELSE IF date_str = "1970-01-03" THEN [raises |-> FALSE, value |-> 172800]
    ELSE [raises |-> TRUE, value |-> 0]

date_fields == <<"published", "updated", "created">>

\* `date_str = entry.get(field)` followed by `if date_str:`.
populated(e, field) == field \in DOMAIN e.dates /\ e.dates[field] # ""

RECURSIVE parse_date_first_only(_, _, _)
parse_date_first_only(e, k, now) ==
    IF k > Len(date_fields) THEN now
    ELSE IF populated(e, date_fields[k])
         THEN LET d == date_parser_parse(e.dates[date_fields[k]]) IN
              IF d.raises THEN now ELSE d.value
         ELSE parse_date_first_only(e, k + 1, now)

RECURSIVE parse_date(_, _, _)
\* _parse_date from its k-th field on: a populated field that parses is
\* returned, one that raises is passed over (`continue`), and datetime.now()
\* is returned when the fields are exhausted.
parse_date(e, k, now) ==
    IF k > Len(date_fields) THEN now
    ELSE IF populated(e, date_fields[k])
         THEN LET d == date_parser_parse(e.dates[date_fields[k]]) IN
              IF d.raises THEN parse_date(e, k + 1, now) ELSE d.value
         ELSE parse_date(e, k + 1, now)

\* The body of the loop of parse_feed_content for one entry: what it appends
\* to news_list.  The News object gets parsed_at in __post_init__.
decode_entry(e, source, now) ==
    IF e.malformed THEN << >>
    ELSE << MakeNews(e.title, e.link, e.summary,
                     [source |-> source.name, language |-> source.language,
                      published_at |-> parse_date(e, 1, now), parsed_at |-> now,
                      rating |-> 0]) >>

RECURSIVE DecodeEntries(_, _)
\* The loop of parse_feed_content over feed.entries: an entry whose
\* processing raises is skipped, the others become News objects of the
\* source, rating 0.0, at the instant of the run (90000).
DecodeEntries(entries, source) ==
    IF entries = << >> THEN << >>
    ELSE decode_entry(Head(entries), source, 90000)
         \o DecodeEntries(Tail(entries), source)

\* _parse_source once fetch_feed returned content: '' gives [], otherwise
\* parse_feed_content decodes it, and an exception of feedparser.parse
\* leaves the task.
parse_source_result(body, source) ==
    IF body.text = "" THEN [kind |-> "list", news |-> << >>]
    ELSE IF body.crash THEN [kind |-> "exception", news |-> << >>]
    ELSE [kind |-> "list", news |-> DecodeEntries(body.entries, source)]

RECURSIVE MergeResults(_, _)
\* The loop over results of asyncio.gather(*tasks, return_exceptions=True):
\* lists are appended in task order, exceptions are logged.
MergeResults(results, i) ==
    IF i > Len(results) THEN << >>
    ELSE (IF results[i].kind = "list" THEN results[i].news ELSE << >>)
         \o MergeResults(results, i + 1)

\* What `await asyncio.gather(...)` and the merge loop give parse_all_sources.
gather_propagating(results) ==
    IF \E i \in DOMAIN results : results[i].kind = "exception"
    THEN [raised |-> TRUE, news |-> << >>]
    ELSE [raised |-> FALSE, news |-> MergeResults(results, 1)]

RECURSIVE DropSeen(_, _)
DropSeen(list, seen) ==
    IF list = << >> THEN << >>
    ELSE IF Head(list).content_hash \in seen THEN DropSeen(Tail(list), seen)
    ELSE <<Head(list)>> \o DropSeen(Tail(list), seen \cup {Head(list).content_hash})

gather_and_merge_dedup(results) ==
    [raised |-> FALSE, news |-> DropSeen(MergeResults(results, 1), {})]

gather_and_merge(results) ==
    [raised |-> FALSE, news |-> MergeResults(results, 1)]

\* The value of the history variable finished where the order is not kept.
Untracked == <<0>>

\* The task of source s finishes.
Finishes(done_order, s) ==
    IF done_order = Untracked THEN Untracked ELSE Append(done_order, s)

\* `results = await asyncio.gather(*tasks, ...)`: the results are in the
\* order of the tasks passed, whatever the order in which they finished.
gather_results_as_completed(results, done_order) ==
    IF done_order = Untracked THEN results
    ELSE [k \in DOMAIN done_order |-> results[done_order[k]]]

gather_results(results, done_order) == results

Pending == [kind |-> "pending", news |-> << >>]

\* What fetch_feed has returned to _parse_source while it is still running.
NotReturned == "not returned"

\* `if attempt < MAX_RETRIES - 1` of fetch_feed: a failed attempt is
\* followed by a sleep unless it was the last one.
sleeps_after_every(n) == n < MAX_RETRIES

sleeps_after(n) == n < MAX_RETRIES - 1

\* `return ""` of fetch_feed after the last failed attempt, whatever the
\* failure was.
failure_content_kind(why) == why

failure_content(why) == ""

\* asyncio.gather returns once every task it was given is done.
gather_first_completed(pcs) == \E s \in SourceIds : pcs[s] = "done"

gather_done(pcs) == \A s \in SourceIds : pcs[s] = "done"

ParseFresh ==
    /\ ppc = "idle"
    /\ tpc = [s \in SourceIds |-> "new"]
    /\ attempt = [s \in SourceIds |-> 0]
    /\ tres = [s \in SourceIds |-> Pending]
    /\ served = [s \in SourceIds |-> NotServed]
    /\ all_news = << >>
    /\ praised = FALSE
    /\ slept = [s \in SourceIds |-> << >>]
    /\ fkind = [s \in SourceIds |-> "none"]
    /\ content = [s \in SourceIds |-> NotReturned]
    /\ selected = << >>
    /\ offered = << >>

ParseIdle == ParseFresh /\ finished = Untracked

\* parse_all_sources is called: one _parse_source task per source, each
\* running up to its first session.get.
ParseAllSources ==
    /\ ppc = "idle"
    /\ ppc' = "gathering"
    /\ tpc' = [s \in SourceIds |-> "get"]
    /\ UNCHANGED <<attempt, tres, served, all_news, praised, slept, fkind, content, selected, offered,
                   finished,
                   storeVars, concVars, schedVars, calcVars>>

\* An attempt answers 200 and response.text() returns body: fetch_feed
\* returns it and _parse_source finishes.
AttemptSucceeds(s, body) ==
    /\ tpc[s] = "get"
    /\ tpc' = [tpc EXCEPT ![s] = "done"]
    /\ served' = [served EXCEPT ![s] = body]
    /\ content' = [content EXCEPT ![s] = body.text]
    /\ tres' = [tres EXCEPT ![s] = parse_source_result(body, RSS_SOURCES[s])]
    /\ finished' = Finishes(finished, s)
    /\ UNCHANGED <<ppc, attempt, all_news, praised, slept, fkind, selected, offered,
                   storeVars, concVars, schedVars, calcVars>>

\* An attempt fails: fetch_feed sleeps RETRY_DELAY before the next attempt,
\* or, after the last attempt, returns '' and _parse_source returns [].
AttemptFails(s, why) ==
    /\ tpc[s] = "get"
    /\ IF sleeps_after(attempt[s])
       THEN /\ tpc' = [tpc EXCEPT ![s] = "retry_sleep"]
            /\ slept' = [slept EXCEPT ![s] = Append(@, RETRY_DELAY)]
            /\ UNCHANGED <<tres, served, fkind, content, finished>>
       ELSE /\ tpc' = [tpc EXCEPT ![s] = "done"]
            /\ content' = [content EXCEPT ![s] = failure_content(why)]
            /\ tres' = [tres EXCEPT ![s] =
                          parse_source_result([NoBody EXCEPT !.text = failure_content(why)],
                                              RSS_SOURCES[s])]
            /\ served' = [served EXCEPT ![s] = AllFailed]
            /\ fkind' = [fkind EXCEPT ![s] = why]
            /\ finished' = Finishes(finished, s)
            /\ UNCHANGED slept
    /\ UNCHANGED <<ppc, attempt, all_news, praised, selected, offered,
                   storeVars, concVars, schedVars, calcVars>>

\* asyncio.sleep(RETRY_DELAY) is over: the next attempt.
RetryWake(s) ==
    /\ tpc[s] = "retry_sleep"
    /\ tpc' = [tpc EXCEPT ![s] = "get"]
    /\ attempt' = [attempt EXCEPT ![s] = attempt[s] + 1]
    /\ UNCHANGED <<ppc, tres, served, all_news, praised, slept, fkind, content, selected, offered,
                   finished,
                   storeVars, concVars, schedVars, calcVars>>

\* Every task is done: gather returns, the results are merged, the session
\* is closed and parse_all_sources returns all_news.
GatherReturns ==
    /\ ppc = "gathering"
    /\ gather_done(tpc)
    /\ LET g == gather_and_merge(gather_results(tres, finished)) IN
       /\ all_news' = g.news
       /\ praised' = g.raised
    /\ ppc' = "returned"
    /\ UNCHANGED <<tpc, attempt, tres, served, slept, fkind, content, selected, offered, finished,
                   storeVars, concVars, schedVars, calcVars>>

\* The caller is done with the list; the parser is ready for the next run.
ParseReset ==
    /\ ppc \in {"returned", "used", "top saved"}
    /\ ppc' = "idle"
    /\ tpc' = [s \in SourceIds |-> "new"]
    /\ attempt' = [s \in SourceIds |-> 0]
    /\ tres' = [s \in SourceIds |-> Pending]
    /\ served' = [s \in SourceIds |-> NotServed]
    /\ all_news' = << >>
    /\ praised' = FALSE
    /\ slept' = [s \in SourceIds |-> << >>]
    /\ fkind' = [s \in SourceIds |-> "none"]
    /\ content' = [s \in SourceIds |-> NotReturned]
    /\ selected' = << >>
    /\ offered' = << >>
    /\ finished' = IF finished = Untracked THEN Untracked ELSE << >>
    /\ UNCHANGED <<storeVars, concVars, schedVars, calcVars>>

(***************************************************************************)
(* parser/ranking.py.  Component scores are in tenths, ratings in          *)
(* hundredths, times in seconds.                                           *)
(***************************************************************************)
\* _calculate_freshness_score: the step function of age = now - published_at.
freshness_score_inclusive(published_at, now) ==
    LET age == now - published_at IN
    IF age <= 3600 THEN 10
    ELSE IF age <= 10800 THEN 9
    ELSE IF age <= 21600 THEN 7
    ELSE IF age <= 43200 THEN 5
    ELSE IF age <= 86400 THEN 3
    ELSE 1

freshness_score(published_at, now) ==
    LET age == now - published_at IN
    IF age < 3600 THEN 10
    ELSE IF age < 10800 THEN 9
    ELSE IF age < 21600 THEN 7
    ELSE IF age < 43200 THEN 5
    ELSE IF age < 86400 THEN 3
    ELSE 1

\* A datetime as dateutil's parser returns it: wall is its wall-clock
\* reading in seconds, aware whether it carries a tzinfo, utcoffset the
\* offset of that tzinfo.  The instant it denotes is wall - utcoffset when
\* it is aware and wall - zone when it is naive, zone being the offset of
\* the machine's local time, in which datetime.now() reads the clock.
instant_of(published_at, zone) ==
    published_at.wall - (IF published_at.aware THEN published_at.utcoffset ELSE zone)

\* `published_at.replace(tzinfo=None)`: the wall-clock reading is kept, the
\* offset is dropped.
naive(published_at, zone) == published_at.wall

\* _calculate_freshness_score on such a datetime, now being datetime.now().
freshness_of(published_at, now, zone) == freshness_score(naive(published_at, zone), now)

\* RankingEngine.__init__: self.source_weights, source name -> weight (in
\* tenths).
weights_of(sources) ==
    [name \in {sources[i].name : i \in DOMAIN sources} |->
        sources[CHOOSE i \in DOMAIN sources : sources[i].name = name].weight]

\* self.source_weights.get(source, 5.0)
weight_of(weights, source) ==
    IF source \in DOMAIN weights THEN weights[source] ELSE 50

\* The weight of a source in the engine built from RSS_SOURCES.
source_weight(source) == weight_of(weights_of(RSS_SOURCES), source)

\* The number of whole-word matches of RELEVANCE_KEYWORDS in a text: "ai",
\* "code" and "python" are in the vocabulary, the other texts of the model
\* hold no keyword.
VocabularyMatches(text) ==
    IF text = "ai code" THEN 2
    ELSE IF text = "ai code python" THEN 3
    ELSE 0

\* _calculate_keyword_score: min(1.0, keyword_count / 5.0).
keyword_score(title, description) ==
    LET keyword_count == VocabularyMatches(title) + VocabularyMatches(description) IN
    IF keyword_count >= 5 THEN 10 ELSE 2 * keyword_count

\* The same score with the text spelled out in characters, a title or a
\* description being a sequence of one-character strings.
\* str.lower() on the letters the texts of the model use.
lower(text) ==
    [k \in DOMAIN text |->
        CASE text[k] = "A" -> "a" [] text[k] = "I" -> "i" [] text[k] = "C" -> "c"
          [] text[k] = "G" -> "g" [] text[k] = "O" -> "o" [] OTHER -> text[k]]

\* \w of the regular expressions: letters and digits (and the underscore).
IsWordChar(c) == c \in {"a", "i", "c", "g", "o", "n", "1"}

WordAt(text, k) == k \in DOMAIN text /\ IsWordChar(text[k])

\* \b between the characters k - 1 and k of text: exactly one of the two is
\* a word character, the ends of the text counting as none.
Boundary(text, k) == WordAt(text, k - 1) # WordAt(text, k)

\* The pattern r'\b' + re.escape(keyword) + r'\b' matches at position k.
PatternAt(text, keyword, k) ==
    /\ k + Len(keyword) - 1 <= Len(text)
    /\ SubSeq(text, k, k + Len(keyword) - 1) = keyword
    /\ Boundary(text, k)
    /\ Boundary(text, k + Len(keyword))

RECURSIVE findall(_, _, _)
\* len(re.findall(pattern, text)) from position k on: the matches found
\* scanning from the left, none overlapping the one before.
findall(text, keyword, k) ==
    IF k > Len(text) THEN 0
    ELSE IF PatternAt(text, keyword, k)
         THEN 1 + findall(text, keyword, k + Len(keyword))
         ELSE findall(text, keyword, k + 1)

\* Entries of RELEVANCE_KEYWORDS: "ai", "go", "c++".
RELEVANCE_KEYWORDS == << <<"a", "i">>, <<"g", "o">>, <<"c", "+", "+">> >>

RECURSIVE count_keywords(_, _)
\* The loop `for keyword in RELEVANCE_KEYWORDS: keyword_count += matches`
\* from entry j on.
count_keywords(text, j) ==
    IF j > Len(RELEVANCE_KEYWORDS) THEN 0
    ELSE findall(text, lower(RELEVANCE_KEYWORDS[j]), 1) + count_keywords(text, j + 1)

\* text = f"{title} {description}".lower(); min(1.0, keyword_count / 5.0).
calculate_keyword_score(title, description) ==
    LET text == lower(title \o <<" ">> \o description)
        keyword_count == count_keywords(text, 1) IN
    IF keyword_count >= 5 THEN 10 ELSE 2 * keyword_count

\* _calculate_length_score.
length_score_unknown_short(article_length) ==
    IF 500 <= article_length /\ article_length <= 2000 THEN 10
    ELSE IF 300 <= article_length /\ article_length < 500 THEN 8
    ELSE IF 2000 < article_length /\ article_length <= 3000 THEN 8
    ELSE IF 100 <= article_length /\ article_length < 300 THEN 5
    ELSE 3

length_score(article_length) ==
    IF article_length = 0 THEN 5
    ELSE IF 500 <= article_length /\ article_length <= 2000 THEN 10
    ELSE IF 300 <= article_length /\ article_length < 500 THEN 8
    ELSE IF 2000 < article_length /\ article_length <= 3000 THEN 8
    ELSE IF 100 <= article_length /\ article_length < 300 THEN 5
    ELSE 3

\* RATING_MIN = 0.0 and RATING_MAX = 10.0, in hundredths.
RATING_MIN == 0

RATING_MAX_percent == 10 * 1000

RATING_MAX == 1000

\* calculate_rating of an engine with the given source_weights: the weighted
\* sum (weights 0.3, 0.25, 0.25, 0.2) times RATING_MAX, clamped to
\* [RATING_MIN, RATING_MAX] and rounded to two decimals.  total_score is in
\* thousandths.  With a source weight that is a multiple of 0.2, as all
\* weights of the model are, the product is a whole number of hundredths
\* and round() changes nothing.
engine_rating_smoothed(weights, news, article_length, now) ==
    LET total_score == freshness_score(news.published_at, now) * 30
                       + (weight_of(weights, news.source) * 25) \div 10
                       + keyword_score(news.title, news.description) * 25
                       + length_score(article_length) * 20
        rating == (total_score * RATING_MAX) \div 1000 IN
    (news.rating + (IF rating < RATING_MIN THEN RATING_MIN
                    ELSE IF rating > RATING_MAX THEN RATING_MAX ELSE rating)) \div 2

engine_rating(weights, news, article_length, now) ==
    LET total_score == freshness_score(news.published_at, now) * 30
                       + (weight_of(weights, news.source) * 25) \div 10
                       + keyword_score(news.title, news.description) * 25
                       + length_score(article_length) * 20
        rating == (total_score * RATING_MAX) \div 1000 IN
    IF rating < RATING_MIN THEN RATING_MIN
    ELSE IF rating > RATING_MAX THEN RATING_MAX ELSE rating

\* calculate_rating of the engine built from RSS_SOURCES.
calculate_rating(news, article_length, now) ==
    engine_rating(weights_of(RSS_SOURCES), news, article_length, now)

RECURSIVE InsertByRating_front(_, _)
InsertByRating_front(sorted, x) ==
    IF sorted = << >> THEN <<x>>
    ELSE IF Head(sorted).rating > x.rating
         THEN <<Head(sorted)>> \o InsertByRating_front(Tail(sorted), x)
         ELSE <<x>> \o sorted

RECURSIVE InsertByRating(_, _)
\* x placed behind every element of the descending list whose rating is not
\* lower: sorted(..., reverse=True) keeps the input order of equal ratings.
InsertByRating(sorted, x) ==
    IF sorted = << >> THEN <<x>>
    ELSE IF Head(sorted).rating >= x.rating
         THEN <<Head(sorted)>> \o InsertByRating(Tail(sorted), x)
         ELSE <<x>> \o sorted

RECURSIVE SortByRating(_, _)
SortByRating(list, i) ==
    IF i = 0 THEN << >>
    ELSE InsertByRating(SortByRating(list, i - 1), list[i])

\* rank_news_list of an engine with the given source_weights, without
\* article_lengths: every length is 0.
engine_rank(weights, news_list, now) ==
    LET rated == [i \in DOMAIN news_list |->
                    [news_list[i] EXCEPT !.rating = engine_rating(weights, news_list[i], 0, now)]] IN
    SortByRating(rated, Len(rated))

\* rank_news_list of the engine built from RSS_SOURCES.
rank_news_list(news_list, now) == engine_rank(weights_of(RSS_SOURCES), news_list, now)

(***************************************************************************)
(* config/settings.py                                                      *)
(***************************************************************************)
\* SCHEDULE_INTERVALS.get(interval, 3600)
interval_seconds_hourly(key) == 3600

interval_seconds(key) ==
    CASE key = "hourly" -> 3600
      [] key = "3hours" -> 10800
      [] key = "6hours" -> 21600
      [] key = "daily"  -> 86400
      [] OTHER -> 3600

\* DAILY_SEND_TIME = "09:00", in seconds after midnight.
DAILY_SEND_TIME == 32400

TOP_NEWS_COUNT == 4

(***************************************************************************)
(* bot/scheduler.py.  A start() call is a coroutine; its steps are the     *)
(* stretches of code between two awaits, which asyncio runs without        *)
(* interleaving.  The awaits are parse_all_sources, post_digest and        *)
(* asyncio.sleep.                                                          *)
(***************************************************************************)
\* The calls of start() on the one scheduler: main.py makes the first, the
\* second is any further call.
Starts == {1, 2}

\* Inputs of a cycle: the bodies the three sources deliver (NoBody: every
\* attempt failed), the instant of the ranking, the wall-clock time of day
\* at which the daily loop computes its target.
CycleBodies ==
    { <<NoBody, NoBody, NoBody>>,
      <<[text |-> "xml", entries |-> <<RawA>>, crash |-> FALSE], NoBody, NoBody>>,
      <<[text |-> "xml", entries |-> <<RawA, RawBad, RawB>>, crash |-> FALSE],
        [text |-> "xml", entries |-> <<RawA, RawB>>, crash |-> FALSE],
        [text |-> "xml", entries |-> <<RawA>>, crash |-> FALSE]>> }

\* The lists parse_all_sources returns for these bodies.
ParseOutcomes ==
    { gather_and_merge([s \in SourceIds |-> parse_source_result(bs[s], RSS_SOURCES[s])]).news :
        bs \in CycleBodies }

RankNows == {88200, 180000}

DayTimes == {32400, 36000}

\* The delay the daily loop computes at time of day now: to today's
\* DAILY_SEND_TIME, or to tomorrow's when now.time() > send_time.
wait_seconds_sameday(now) == DAILY_SEND_TIME - now

wait_seconds(now) ==
    IF now > DAILY_SEND_TIME
    THEN DAILY_SEND_TIME + 86400 - now
    ELSE DAILY_SEND_TIME - now

NoSleep == [kind |-> "none", secs |-> 0]

\* The period label of a cycle: hours = interval_seconds // 3600; "последний
\* час" for 1, "последние {hours} часа" below 24, "сегодня" otherwise.
period_label(key) ==
    LET hours == interval_seconds(key) \div 3600 IN
    IF hours = 1 THEN [text |-> "last hour", hours |-> 1]
    ELSE IF hours < 24 THEN [text |-> "last hours", hours |-> hours]
    ELSE [text |-> "today", hours |-> 0]

NoPeriod == [text |-> "", hours |-> 0]

\* ranked_news[:TOP_NEWS_COUNT]
TopN_all(ranked_news) == ranked_news

TopN(ranked_news) ==
    SubSeq(ranked_news, 1,
           IF Len(ranked_news) < TOP_NEWS_COUNT THEN Len(ranked_news) ELSE TOP_NEWS_COUNT)

RECURSIVE Inserted_only(_, _)
Inserted_only(ranked_news, rets) ==
    IF ranked_news = << >> \/ rets = << >> THEN << >>
    ELSE (IF Head(rets) # None THEN <<Head(ranked_news)>> ELSE << >>)
         \o Inserted_only(Tail(ranked_news), Tail(rets))

cycle_top_inserted(ranked_news, rets) == TopN(Inserted_only(ranked_news, rets))

\* `top_news = ranked_news[:TOP_NEWS_COUNT]` of the cycle: what the add_news
\* calls returned (rets; the code keeps only their count) is not consulted.
cycle_top(ranked_news, rets) == TopN(ranked_news)

\* How a post_digest call can go wrong: format_digest_message raises,
\* bot.send_message raises.
DeliveryFailures == {"format", "send"}

\* ChannelPoster.post_digest: None for an empty list, None when formatting
\* or sending raised (the except clause logs it), else the sent message.
post_digest_propagating(news_list, failure) ==
    IF news_list = << >> THEN "None"
    ELSE IF failure \in DeliveryFailures THEN "raised"
    ELSE "message"

post_digest(news_list, failure) ==
    IF news_list = << >> THEN "None"
    ELSE IF failure \in DeliveryFailures THEN "None"
    ELSE "message"

\* The entries post_digest formats and hands to bot.send_message:
\* news_list[:TOP_NEWS_COUNT], none for an empty list or when
\* format_digest_message raised.
sent_entries_whole(news_list, failure) ==
    IF news_list = << >> \/ failure = "format" THEN << >> ELSE news_list

sent_entries(news_list, failure) ==
    IF news_list = << >> \/ failure = "format" THEN << >> ELSE TopN(news_list)

\* Exceptions the try block of _send_scheduled_digest catches and logs.
CycleFailures == {"fetch", "rank", "insert"}

At(pc, sleep, f) == [pc |-> pc, sleep |-> sleep, failed |-> f]

\* A cycle begins: _send_scheduled_digest runs up to
\* `await parse_all_sources()`.  An exception raised before its try block is
\* entered reaches the handler of the loop, which sleeps backoff seconds.
BeginCycle(backoff) ==
    { At("fetching", NoSleep, "none"),
      At("sleeping", [kind |-> "backoff", secs |-> backoff], "loop") }

\* The head of _run_interval_schedule's loop: `while self.is_running`, the
\* cycle.
IntervalLoop_forever(running, f) == BeginCycle(60)

IntervalLoop(running, f) ==
    IF ~running THEN {At("returned", NoSleep, f)}
    ELSE BeginCycle(60)

\* The head of _run_daily_schedule's loop: `while self.is_running`, the
\* computation of the next target and the sleep until then, or the handler's
\* sleep when the computation raises.
DailyLoop(running, f) ==
    IF ~running THEN {At("returned", NoSleep, f)}
    ELSE { At("sleeping", [kind |-> "daily", secs |-> wait_seconds(now)], f) : now \in DayTimes }
         \cup { At("sleeping", [kind |-> "backoff", secs |-> 3600], "target") }

\* _send_scheduled_digest has returned (it catches every Exception itself):
\* the interval loop sleeps interval_seconds, the daily loop is at its head.
AfterCycle_propagating(loop, running, f) ==
    IF f \in CycleFailures THEN {At("returned", NoSleep, f)}
    ELSE IF loop = "interval"
    THEN {At("sleeping", [kind |-> "interval", secs |-> interval_seconds(interval)], f)}
    ELSE DailyLoop(running, f)

AfterCycle(loop, running, f) ==
    IF loop = "interval"
    THEN {At("sleeping", [kind |-> "interval", secs |-> interval_seconds(interval)], f)}
    ELSE DailyLoop(running, f)

\* asyncio.sleep is over.
AfterSleep(loop, sleep, running, f) ==
    IF loop = "interval" THEN IntervalLoop(running, f)
    ELSE IF sleep.kind = "daily" THEN BeginCycle(3600)
    ELSE DailyLoop(running, f)

Goto(i, c) ==
    /\ spc' = [spc EXCEPT ![i] = c.pc]
    /\ sleepArg' = [sleepArg EXCEPT ![i] = c.sleep]
    /\ failed' = [failed EXCEPT ![i] = c.failed]

\* self.mode == 'manual'
IsManual_never(m) == FALSE

IsManual(m) == m = "manual"

RECURSIVE InsertAll_top(_, _, _, _, _)
InsertAll_top(ranked, k, rs, id, failAt) ==
    IF k > Len(ranked) \/ k > TOP_NEWS_COUNT
    THEN [rows |-> rs, nextId |-> id, raised |-> FALSE, rets |-> << >>]
    ELSE IF k = failAt THEN [rows |-> rs, nextId |-> id, raised |-> TRUE, rets |-> << >>]
    ELSE LET r == add_news(ranked[k], rs, id)
             rest == InsertAll_top(ranked, k + 1, r.rows, r.nextId, failAt) IN
         [rest EXCEPT !.rets = <<r.ret>> \o @]

RECURSIVE InsertAll_resuming(_, _, _, _, _)
InsertAll_resuming(ranked, k, rs, id, failAt) ==
    IF k > Len(ranked) THEN [rows |-> rs, nextId |-> id, raised |-> FALSE, rets |-> << >>]
    ELSE IF k = failAt
    THEN [InsertAll_resuming(ranked, k + 1, rs, id, failAt) EXCEPT !.raised = TRUE]
    ELSE LET r == add_news(ranked[k], rs, id)
             rest == InsertAll_resuming(ranked, k + 1, r.rows, r.nextId, failAt) IN
         [rest EXCEPT !.rets = <<r.ret>> \o @]

RECURSIVE InsertAll(_, _, _, _, _)
\* `for news in ranked_news: add_news(news)` from entry k on; the call for
\* entry failAt raises an error that is no IntegrityError (failAt = 0: none
\* does).
\* rets: what the calls that returned have returned, in call order.
InsertAll(ranked, k, rs, id, failAt) ==
    IF k > Len(ranked) THEN [rows |-> rs, nextId |-> id, raised |-> FALSE, rets |-> << >>]
    ELSE IF k = failAt THEN [rows |-> rs, nextId |-> id, raised |-> TRUE, rets |-> << >>]
    ELSE LET r == add_news(ranked[k], rs, id)
             rest == InsertAll(ranked, k + 1, r.rows, r.nextId, failAt) IN
         [rest EXCEPT !.rets = <<r.ret>> \o @]

(***************************************************************************)
(* The callers of a run of parse_all_sources: _send_scheduled_digest and   *)
(* the command handlers, and the script parse_and_save_news.py             *)
(***************************************************************************)
\* The instant at which the caller ranks the list.
RankNow == 90000

\* The list the run returned is not empty: it is ranked, every ranked entry
\* is offered to add_news and the top news are selected for delivery.
UseNews ==
    /\ ppc = "returned"
    /\ all_news # << >>
    /\ LET ranked_news == rank_news_list(all_news, RankNow)
           ins == InsertAll(ranked_news, 1, rows, nextId, 0) IN
       /\ rows' = ins.rows
       /\ nextId' = ins.nextId
       /\ selected' = TopN(ranked_news)
       /\ offered' = SubSeq(ranked_news, 1, Len(ins.rets))
    /\ ppc' = "used"
    /\ UNCHANGED <<tpc, attempt, tres, served, all_news, praised, slept, fkind, content,
                   finished, prev, last, concVars, schedVars, calcVars>>

\* parse_and_save_top_news(top_count=4): the list is ranked, cut to
\* ranked_news[:top_count], and add_news is called for the entries of the
\* cut list, which is then handed to post_digest.
SaveTopNews ==
    /\ ppc = "returned"
    /\ all_news # << >>
    /\ LET ranked_news == rank_news_list(all_news, RankNow)
           top == TopN(ranked_news)
           ins == InsertAll(top, 1, rows, nextId, 0) IN
       /\ rows' = ins.rows
       /\ nextId' = ins.nextId
       /\ selected' = top
       /\ offered' = SubSeq(top, 1, Len(ins.rets))
    /\ ppc' = "top saved"
    /\ UNCHANGED <<tpc, attempt, tres, served, all_news, praised, slept, fkind, content,
                   finished, prev, last, concVars, schedVars, calcVars>>

NextParse ==
    \/ ParseAllSources
    \/ \E s \in SourceIds, body \in Bodies : AttemptSucceeds(s, body)
    \/ \E s \in SourceIds, why \in AttemptFailures : AttemptFails(s, why)
    \/ \E s \in SourceIds : RetryWake(s)
    \/ GatherReturns
    \/ UseNews
    \/ SaveTopNews
    \/ ParseReset

\* The fetch_feed calls of one run on their own, up to their return.
NextFetch ==
    \/ ParseAllSources
    \/ \E s \in SourceIds, body \in Bodies : AttemptSucceeds(s, body)
    \/ \E s \in SourceIds, why \in AttemptFailures : AttemptFails(s, why)
    \/ \E s \in SourceIds : RetryWake(s)

\* One run of parse_all_sources by a scheduler cycle, on an empty store.
NextOrder ==
    \/ ParseAllSources
    \/ \E s \in SourceIds, body \in Bodies : AttemptSucceeds(s, body)
    \/ \E s \in SourceIds, why \in AttemptFailures : AttemptFails(s, why)
    \/ \E s \in SourceIds : RetryWake(s)
    \/ GatherReturns
    \/ UseNews

\* A request ends within ClientTimeout(total=REQUEST_TIMEOUT) and
\* asyncio.sleep(RETRY_DELAY) ends: a task that can step does step.
FetchFairness ==
    \A s \in SourceIds :
        WF_vars(\/ \E body \in Bodies : AttemptSucceeds(s, body)
                \/ \E why \in AttemptFailures : AttemptFails(s, why)
                \/ RetryWake(s))

SchedIdle ==
    /\ is_running = FALSE
    /\ spc = [i \in Starts |-> "new"]
    /\ loopOf = [i \in Starts |-> "none"]
    /\ sleepArg = [i \in Starts |-> NoSleep]
    /\ top_news = [i \in Starts |-> << >>]
    /\ failed = [i \in Starts |-> "none"]
    /\ stopCalled = FALSE
    /\ period = [i \in Starts |-> NoPeriod]
    /\ calls = [i \in Starts |-> 0]

\* NewsScheduler(bot): mode and interval come from the environment.
SchedInit ==
    /\ mode \in {"manual", "auto"}
    /\ interval \in {"hourly", "6hours", "daily", "weekly"}
    /\ SchedIdle

\* `if self.interval == 'daily'` of start(): the loop a start() call enters.
loop_of_interval(key) == "interval"

loop_of(key) == IF key = "daily" THEN "daily" ELSE "interval"

\* start(): returns at once in manual mode; otherwise sets the flag and runs
\* the daily or the interval loop up to its first await.
Start(i) ==
    /\ spc[i] = "new"
    /\ \A j \in Starts : j < i => spc[j] # "new"
    /\ IF IsManual(mode)
       THEN /\ spc' = [spc EXCEPT ![i] = "returned"]
            /\ UNCHANGED <<is_running, loopOf, sleepArg, failed>>
       ELSE /\ is_running' = TRUE
            /\ LET loop == loop_of(interval) IN
               /\ loopOf' = [loopOf EXCEPT ![i] = loop]
               /\ \E c \in (IF loop = "daily" THEN DailyLoop(TRUE, "none")
                                              ELSE IntervalLoop(TRUE, "none")) : Goto(i, c)
    /\ UNCHANGED <<mode, interval, top_news, stopCalled, period, calls,
                   storeVars, concVars, parseVars, calcVars>>

\* stop(): clears the flag.
Stop ==
    /\ is_running' = FALSE
    /\ stopCalled' = TRUE
    /\ UNCHANGED <<mode, interval, spc, loopOf, sleepArg, top_news, failed, period, calls,
                   storeVars, concVars, parseVars, calcVars>>

\* parse_all_sources raised: the except clause of the cycle logs it.
FetchRaises(i) ==
    /\ spc[i] = "fetching"
    /\ \E c \in AfterCycle(loopOf[i], is_running, "fetch") : Goto(i, c)
    /\ UNCHANGED <<mode, interval, is_running, loopOf, top_news, stopCalled, period, calls,
                   storeVars, concVars, parseVars, calcVars>>

\* parse_all_sources returned news_list: an empty list ends the cycle;
\* otherwise the list is ranked, every ranked entry is offered to add_news
\* and the cycle awaits post_digest(ranked_news[:TOP_NEWS_COUNT], period).
\* rankFails: rank_news_list raises; failAt: the add_news call that raises.
FetchReturns(i, news_list, now, rankFails, failAt) ==
    /\ spc[i] = "fetching"
    /\ failAt <= Len(news_list)
    /\ IF news_list = << >>
       THEN /\ ~rankFails /\ failAt = 0
            /\ \E c \in AfterCycle(loopOf[i], is_running, failed[i]) : Goto(i, c)
            /\ UNCHANGED <<rows, nextId, top_news, period, calls>>
       ELSE IF rankFails
       THEN /\ failAt = 0
            /\ \E c \in AfterCycle(loopOf[i], is_running, "rank") : Goto(i, c)
            /\ UNCHANGED <<rows, nextId, top_news, period, calls>>
       ELSE LET ranked_news == rank_news_list(news_list, now)
                ins == InsertAll(ranked_news, 1, rows, nextId, failAt) IN
            /\ rows' = ins.rows
            /\ nextId' = ins.nextId
            /\ IF ins.raised
               THEN /\ \E c \in AfterCycle(loopOf[i], is_running, "insert") : Goto(i, c)
                    /\ UNCHANGED <<top_news, period, calls>>
               ELSE /\ Goto(i, At("delivering", NoSleep, failed[i]))
                    /\ top_news' = [top_news EXCEPT ![i] = cycle_top(ranked_news, ins.rets)]
                    /\ period' = [period EXCEPT ![i] = period_label(interval)]
                    /\ calls' = [calls EXCEPT ![i] = @ + 1]
    /\ UNCHANGED <<mode, interval, is_running, loopOf, stopCalled,
                   prev, last, concVars, parseVars, calcVars>>

\* The post_digest call of the cycle is over: the cycle logs a message as
\* success and None as a warning, its except clause logs an exception; then
\* it returns.
DeliverReturns(i, failure) ==
    /\ spc[i] = "delivering"
    /\ LET message == post_digest(top_news[i], failure) IN
       \E c \in AfterCycle(loopOf[i], is_running,
                           IF message = "message" THEN failed[i]
                           ELSE IF message = "None" THEN "deliver"
                           ELSE "delivery raised") : Goto(i, c)
    /\ top_news' = [top_news EXCEPT ![i] = << >>]
    /\ calls' = [calls EXCEPT ![i] = 0]
    /\ period' = [period EXCEPT ![i] = NoPeriod]
    /\ UNCHANGED <<mode, interval, is_running, loopOf, stopCalled,
                   storeVars, concVars, parseVars, calcVars>>

\* The sleep of a loop is over.
Wake(i) ==
    /\ spc[i] = "sleeping"
    /\ \E c \in AfterSleep(loopOf[i], sleepArg[i], is_running, failed[i]) : Goto(i, c)
    /\ UNCHANGED <<mode, interval, is_running, loopOf, top_news, stopCalled, period, calls,
                   storeVars, concVars, parseVars, calcVars>>

LoopStep(i) ==
    \/ FetchRaises(i)
    \/ \E news_list \in ParseOutcomes, now \in RankNows, rankFails \in BOOLEAN,
          failAt \in 0..5 : FetchReturns(i, news_list, now, rankFails, failAt)
    \/ \E failure \in {"none"} \cup DeliveryFailures : DeliverReturns(i, failure)
    \/ Wake(i)

NextSched ==
    \/ \E i \in Starts : Start(i)
    \/ Stop
    \/ \E i \in Starts : LoopStep(i)


(***************************************************************************)
(* The daily target computation of _run_daily_schedule on its own: the     *)
(* code from datetime.now() to wait_seconds.                               *)
(***************************************************************************)
\* Times of day: every tenth minute, the seconds around DAILY_SEND_TIME and
\* the last second of the day.
DayClock == {t * 600 : t \in 0..143} \cup {32399, 32401, 86399}

\* The daily loop before start() is called at time of day now.
NotStarted(now) ==
    [pc |-> "new", clock |-> now, computed_at |-> -1, wake_at |-> -1,
     cycle_started |-> -1, prev_started |-> -1, cycle_ended |-> -1]

DailyIdle == tod = 0 /\ wait = -1 /\ dloop = NotStarted(0)

ComputeWait ==
    /\ wait = -1
    /\ wait' = wait_seconds(tod)
    /\ UNCHANGED <<dloop, tod, source_weights, entry, length_arg, rnow, ratings, scall, sret, pair, runs,
                   storeVars, concVars, parseVars, schedVars>>

NextDaily == ComputeWait

(***************************************************************************)
(* _run_daily_schedule followed on a clock, with the flag set.  Times are  *)
(* whole seconds; a cycle takes at least one.                              *)
(***************************************************************************)
MaxDays == 3        \* the loop is followed up to the end of this many days

Day == 86400

\* The times of day at which start() is called.
StartTimes == {0, 32399, 32400, 32401, 36000, 86399}

\* How long a cycle takes: a second, a minute, up to midnight, a second past
\* midnight, a day, more than a day.
CycleDurations == {1, 60, 54000, 54001, 86400, 90000}

\* How long after it is due a sleep is over.
WakeDelays == {0, 1}

\* asyncio.sleep(delay) suspends for delay seconds, for none when delay <= 0.
asyncio_sleep(delay) == IF delay <= 0 THEN 0 ELSE delay

InHorizon(t) == t < MaxDays * Day

\* start() in daily mode, and every return to the head of the loop: now is
\* read, the target and wait_seconds are computed, the loop sleeps.
ComputeAndSleep ==
    /\ dloop.pc \in {"new", "head"}
    /\ dloop' = [dloop EXCEPT !.pc = "sleeping",
                              !.computed_at = dloop.clock,
                              !.wake_at = dloop.clock
                                          + asyncio_sleep(wait_seconds(dloop.clock % Day))]
    /\ UNCHANGED <<tod, wait, source_weights, entry, length_arg, rnow, ratings, scall, sret,
                   pair, runs, storeVars, concVars, parseVars, schedVars>>

\* The computation of the target raises: the handler sleeps an hour.
ComputeRaises ==
    /\ dloop.pc \in {"new", "head"}
    /\ dloop' = [dloop EXCEPT !.pc = "backoff", !.wake_at = dloop.clock + asyncio_sleep(3600)]
    /\ UNCHANGED <<tod, wait, source_weights, entry, length_arg, rnow, ratings, scall, sret,
                   pair, runs, storeVars, concVars, parseVars, schedVars>>

\* The sleep to the target is over, late seconds after it was due:
\* _send_scheduled_digest is called.
SleepEnds(late) ==
    /\ dloop.pc = "sleeping"
    /\ InHorizon(dloop.wake_at + late)
    /\ dloop' = [dloop EXCEPT !.pc = "cycle",
                              !.clock = dloop.wake_at + late,
                              !.prev_started = dloop.cycle_started,
                              !.cycle_started = dloop.wake_at + late]
    /\ UNCHANGED <<tod, wait, source_weights, entry, length_arg, rnow, ratings, scall, sret,
                   pair, runs, storeVars, concVars, parseVars, schedVars>>

\* _send_scheduled_digest returns after duration seconds; the loop is at its
\* head.
CycleReturns(duration) ==
    /\ dloop.pc = "cycle"
    /\ InHorizon(dloop.clock + duration)
    /\ dloop' = [dloop EXCEPT !.pc = "head",
                              !.clock = dloop.clock + duration,
                              !.cycle_ended = dloop.clock + duration]
    /\ UNCHANGED <<tod, wait, source_weights, entry, length_arg, rnow, ratings, scall, sret,
                   pair, runs, storeVars, concVars, parseVars, schedVars>>

\* The handler's sleep is over; the loop is at its head.
BackoffEnds ==
    /\ dloop.pc = "backoff"
    /\ InHorizon(dloop.wake_at)
    /\ dloop' = [dloop EXCEPT !.pc = "head", !.clock = dloop.wake_at]
    /\ UNCHANGED <<tod, wait, source_weights, entry, length_arg, rnow, ratings, scall, sret,
                   pair, runs, storeVars, concVars, parseVars, schedVars>>

NextDays ==
    \/ ComputeAndSleep
    \/ ComputeRaises
    \/ \E late \in WakeDelays : SleepEnds(late)
    \/ \E duration \in CycleDurations : CycleReturns(duration)
    \/ BackoffEnds

(***************************************************************************)
(* One RankingEngine rating one News object: rank_news_list calls          *)
(* calculate_rating and stores the result in news.rating; the pipeline     *)
(* saves the object; a later run rates the same object again.              *)
(***************************************************************************)
\* No component score has been called on its own.
NoCall == [fn |-> "none"]

ScoreIdle == scall = NoCall /\ sret = << >> /\ pair = << >> /\ runs = << >>

\* The weight the engine holds for the source "Habr"; "Elsewhere" is a
\* source it does not know.
EngineWeights == { [name \in {"Habr"} |-> w] : w \in {0, 20, 80, 100} }

RatedTitles == {"a", "ai code python"}
RatedDescriptions == {"", "ai code python"}
RatedSources == {"Habr", "Elsewhere"}

\* The instant of the calls, and ages of an entry around every threshold of
\* the freshness score; -60 is an entry dated in the future.
RatingNow == 200000
Ages == {-60, 0, 3599, 3600, 10799, 10800, 21599, 21600, 43199, 43200, 86399, 86400}

\* Article lengths around every threshold of the length score.
Lengths == {0, 99, 100, 299, 300, 499, 500, 2000, 2001, 3000, 3001}

\* Ratings a News object may carry before the call.
EarlierRatings == {0, 1000}

RatingIdle ==
    /\ ScoreIdle
    /\ source_weights = weights_of(RSS_SOURCES)
    /\ entry = MakeNews("a", "b", "", [source |-> "Habr", language |-> "ru",
                                       published_at |-> 0, parsed_at |-> 0, rating |-> 0])
    /\ length_arg = 0
    /\ rnow = 0
    /\ ratings = << >>

RatingInit ==
    /\ ScoreIdle
    /\ source_weights \in EngineWeights
    /\ \E title \in RatedTitles, description \in RatedDescriptions, source \in RatedSources,
          age \in Ages, rating \in EarlierRatings :
          entry = MakeNews(title, "b", description,
                           [source |-> source, language |-> "ru",
                            published_at |-> RatingNow - age, parsed_at |-> RatingNow,
                            rating |-> rating])
    /\ length_arg \in Lengths
    /\ rnow = RatingNow
    /\ ratings = << >>

\* news.rating = self.calculate_rating(news, length)
Rate ==
    /\ Len(ratings) < 2
    /\ Len(ratings) = 1 => rows # {}
    /\ LET rating == engine_rating(source_weights, entry, length_arg, rnow) IN
       /\ ratings' = Append(ratings, rating)
       /\ entry' = [entry EXCEPT !.rating = rating]
    /\ UNCHANGED <<dloop, tod, wait, source_weights, length_arg, rnow, scall, sret, pair, runs,
                   storeVars, concVars, parseVars, schedVars>>

\* The pipeline saves the rated object.
SaveRated ==
    /\ Len(ratings) = 1 /\ rows = {}
    /\ LET r == add_news(entry, rows, nextId) IN
       /\ rows' = r.rows
       /\ nextId' = r.nextId
    /\ UNCHANGED <<prev, last, calcVars, concVars, parseVars, schedVars>>

NextRating == Rate \/ SaveRated

(***************************************************************************)
(* The component scores of the RankingEngine, one call at a time.          *)
(***************************************************************************)
\* The instant of the freshness calls, offsets of the local time zone and
\* of the timestamps of a feed (seconds east of UTC), and wall-clock
\* readings whose ages lie around every threshold of the step function.
ScoreNow == 200000
Zones == {0, 10800}
UtcOffsets == {-18000, 0, 10800}
Walls == {ScoreNow - age : age \in Ages}
Timestamps ==
    { [wall |-> w, aware |-> FALSE, utcoffset |-> 0] : w \in Walls }
    \cup { [wall |-> w, aware |-> TRUE, utcoffset |-> o] : w \in Walls, o \in UtcOffsets }

\* The engine scores the freshness of two entries at the same now.
CallFreshness(a, b, zone) ==
    /\ scall = NoCall
    /\ scall' = [fn |-> "freshness", a |-> a, b |-> b, now |-> ScoreNow, zone |-> zone]
    /\ sret' = <<freshness_of(a, ScoreNow, zone), freshness_of(b, ScoreNow, zone)>>
    /\ UNCHANGED <<dloop, tod, wait, source_weights, entry, length_arg, rnow, ratings, pair, runs,
                   storeVars, concVars, parseVars, schedVars>>

\* Word counts around every threshold of the length score, a negative one
\* included.
WordCounts == Lengths \cup {-1, 1, 1999, 2999, 5000}

CallLength(article_length) ==
    /\ scall = NoCall
    /\ scall' = [fn |-> "length", article_length |-> article_length]
    /\ sret' = <<length_score(article_length)>>
    /\ UNCHANGED <<dloop, tod, wait, source_weights, entry, length_arg, rnow, ratings, pair, runs,
                   storeVars, concVars, parseVars, schedVars>>

\* Titles and descriptions in characters: "ai", "AI go", "again", "c++",
\* "c++ c++ c++", "c++1", "go ai go"; "", "ai", "go ai go", "c++ c++".
KeywordTitles ==
    { <<"a", "i">>,
      <<"A", "I", " ", "g", "o">>,
      <<"a", "g", "a", "i", "n">>,
      <<"c", "+", "+">>,
      <<"C", "+", "+", " ", "c", "+", "+", " ", "c", "+", "+">>,
      <<"c", "+", "+", "1">>,
      <<"g", "o", " ", "a", "i", " ", "g", "o">> }

KeywordDescriptions ==
    { << >>,
      <<"a", "i">>,
      <<"g", "o", " ", "a", "i", " ", "g", "o">>,
      <<"c", "+", "+", " ", "c", "+", "+">> }

CallKeyword(title, description) ==
    /\ scall = NoCall
    /\ scall' = [fn |-> "keyword", title |-> title, description |-> description]
    /\ sret' = <<calculate_keyword_score(title, description)>>
    /\ UNCHANGED <<dloop, tod, wait, source_weights, entry, length_arg, rnow, ratings, pair, runs,
                   storeVars, concVars, parseVars, schedVars>>

\* Four entries of one source published at the same time: two without a
\* keyword, one with two and one with three.
RankedEntries ==
    { MakeNews(title, title, "", [source |-> "Habr", language |-> "ru",
                                  published_at |-> ScoreNow, parsed_at |-> ScoreNow,
                                  rating |-> 0]) :
        title \in {"a", "ab", "ai code", "ai code python"} }

\* Lists of up to four of them, none twice.
RankedLists ==
    UNION { { l \in [1 .. n -> RankedEntries] : \A i, j \in 1 .. n : l[i] = l[j] => i = j } :
            n \in 0 .. 4 }

CallRank(news_list) ==
    /\ scall = NoCall
    /\ scall' = [fn |-> "rank", news_list |-> news_list]
    /\ sret' = rank_news_list(news_list, ScoreNow)
    /\ UNCHANGED <<dloop, tod, wait, source_weights, entry, length_arg, rnow, ratings, pair, runs,
                   storeVars, concVars, parseVars, schedVars>>

\* The strings a date field of an entry holds: empty, not a date, two dates.
DateStrings == {"", "junk", "1970-01-02", "1970-01-03"}

\* Every choice of the date fields an entry has and of what they hold.
DateFieldSets ==
    UNION { [F -> DateStrings] : F \in SUBSET {"published", "updated", "created"} }

RawEntries ==
    { [title |-> "a", link |-> "b", summary |-> "", malformed |-> bad, dates |-> d] :
          bad \in BOOLEAN, d \in DateFieldSets }

\* One entry goes through the loop body of parse_feed_content.
CallDecodeEntry(e) ==
    /\ scall = NoCall
    /\ scall' = [fn |-> "decode_entry", e |-> e]
    /\ sret' = decode_entry(e, RSS_SOURCES[1], ScoreNow)
    /\ UNCHANGED <<dloop, tod, wait, source_weights, entry, length_arg, rnow, ratings, pair, runs,
                   storeVars, concVars, parseVars, schedVars>>

NextScore ==
    \/ \E a, b \in Timestamps, zone \in Zones : CallFreshness(a, b, zone)
    \/ \E n \in WordCounts : CallLength(n)
    \/ \E title \in KeywordTitles, description \in KeywordDescriptions :
          CallKeyword(title, description)
    \/ \E news_list \in RankedLists : CallRank(news_list)
    \/ \E e \in RawEntries : CallDecodeEntry(e)

(***************************************************************************)
(* One call of ChannelPoster.post_digest on its own, by a cycle or by a    *)
(* manual trigger.                                                         *)
(***************************************************************************)
\* Six entries a run may have merged, in the order of the merge.
PostPool ==
    << MakeNews("a", "a", "", [source |-> "Elsewhere", language |-> "en",
                               published_at |-> 0, parsed_at |-> ScoreNow, rating |-> 0]),
       MakeNews("ab", "ab", "", [source |-> "Elsewhere", language |-> "en",
                                 published_at |-> 0, parsed_at |-> ScoreNow, rating |-> 0]),
       MakeNews("b", "b", "", [source |-> "Habr", language |-> "ru",
                               published_at |-> 0, parsed_at |-> ScoreNow, rating |-> 0]),
       MakeNews("ai code", "c", "", [source |-> "Habr", language |-> "ru",
                                     published_at |-> 0, parsed_at |-> ScoreNow, rating |-> 0]),
       MakeNews("ai code python", "d", "", [source |-> "Habr", language |-> "ru",
                                            published_at |-> ScoreNow, parsed_at |-> ScoreNow,
                                            rating |-> 0]),
       MakeNews("ba", "e", "ai code python", [source |-> "Habr", language |-> "ru",
                                              published_at |-> ScoreNow, parsed_at |-> ScoreNow,
                                              rating |-> 0]) >>

RECURSIVE Pick(_, _, _)
\* The entries of list whose positions are in S, from position k on.
Pick(list, S, k) ==
    IF k > Len(list) THEN << >>
    ELSE (IF k \in S THEN <<list[k]>> ELSE << >>) \o Pick(list, S, k + 1)

\* The lists a run may have merged.
MergedLists == { Pick(PostPool, S, 1) : S \in SUBSET (DOMAIN PostPool) }

\* The caller ranked news_list and calls post_digest with the ranked list
\* cut to the top news, as the cycle and the handlers do, or whole.
CallPostDigest(news_list, cut, failure) ==
    /\ scall = NoCall
    /\ LET ranked_news == rank_news_list(news_list, ScoreNow)
           passed == IF cut THEN TopN(ranked_news) ELSE ranked_news IN
       /\ scall' = [fn |-> "post_digest", ranked_news |-> ranked_news,
                    news_list |-> passed, failure |-> failure]
       /\ sret' = <<sent_entries(passed, failure), post_digest(passed, failure)>>
    /\ UNCHANGED <<dloop, tod, wait, source_weights, entry, length_arg, rnow, ratings, pair, runs,
                   storeVars, concVars, parseVars, schedVars>>

NextPost ==
    \E news_list \in MergedLists, cut \in BOOLEAN, failure \in {"none"} \cup DeliveryFailures :
        CallPostDigest(news_list, cut, failure)

(***************************************************************************)
(* The pipeline of a cycle (rank, then offer every ranked entry to         *)
(* add_news) run twice on the same two entries, starting on an empty       *)
(* store, by an engine whose two sources weigh 9.0 and 5.0.                *)
(***************************************************************************)
PairWeights == [name \in {"Habr", "Elsewhere"} |-> IF name = "Habr" THEN 90 ELSE 50]

\* The instants of the two runs; B was published two days before the first.
RunNows == <<200000, 203600>>

\* A: from the source of weight 9.0, published at the first run, two
\* keyword matches in its title.  '' is the link of an entry without one.
EntriesA ==
    { MakeNews("ai code", link, "",
               [source |-> "Habr", language |-> "ru", published_at |-> RunNows[1],
                parsed_at |-> RunNows[1], rating |-> 0]) : link \in {"", "b", "c"} }

\* B: from the source of weight 5.0, published two days earlier, no match.
EntriesB ==
    { MakeNews(title, link, description,
               [source |-> "Elsewhere", language |-> "en", published_at |-> RunNows[1] - 172800,
                parsed_at |-> RunNows[1], rating |-> 0]) :
        title \in {"a", "ab"}, link \in {"", "b", "i code"}, description \in {"", "b"} }

PairInit ==
    /\ \E a \in EntriesA, b \in EntriesB : pair \in {<<a, b>>, <<b, a>>}
    /\ runs = << >>

RunOnce ==
    /\ Len(runs) < Len(RunNows)
    /\ LET ranked_news == engine_rank(PairWeights, pair, RunNows[Len(runs) + 1])
           ins == InsertAll(ranked_news, 1, rows, nextId, 0) IN
       /\ rows' = ins.rows
       /\ nextId' = ins.nextId
       /\ runs' = Append(runs, [ranked |-> ranked_news, rets |-> ins.rets, before |-> rows])
    /\ UNCHANGED <<prev, last, dloop, tod, wait, source_weights, entry, length_arg, rnow, ratings,
                   scall, sret, pair, concVars, parseVars, schedVars>>

NextPair == RunOnce

(***************************************************************************)
(* Specifications.  Each one runs one part of the program from the state   *)
(* after construction and leaves the other parts idle.                     *)
(***************************************************************************)
Idle == /\ mode = "manual"
        /\ interval = "hourly"
        /\ SchedIdle

Init == StoreInit /\ ConcIdle /\ ParseIdle /\ Idle /\ DailyIdle /\ RatingIdle

InitSched == StoreInit /\ ConcIdle /\ ParseIdle /\ SchedInit /\ DailyIdle /\ RatingIdle

InitDaily ==
    /\ StoreInit /\ ConcIdle /\ ParseIdle /\ Idle /\ RatingIdle
    /\ tod \in DayClock
    /\ wait = -1
    /\ dloop = NotStarted(0)

InitRating == StoreInit /\ ConcIdle /\ ParseIdle /\ Idle /\ DailyIdle /\ RatingInit

SpecStore == Init /\ [][NextStore]_vars

SpecConc == Init /\ [][NextConc]_vars

SpecParse == Init /\ [][NextParse]_vars
SpecFetch == Init /\ [][NextFetch]_vars /\ FetchFairness

InitOrder ==
    /\ StoreInit /\ ConcIdle /\ Idle /\ DailyIdle /\ RatingIdle
    /\ ParseFresh /\ finished = << >>

SpecOrder == InitOrder /\ [][NextOrder]_vars

SpecSched == InitSched /\ [][NextSched]_vars

SpecDaily == InitDaily /\ [][NextDaily]_vars

SpecRating == InitRating /\ [][NextRating]_vars

SpecScore == Init /\ [][NextScore]_vars

SpecPost == Init /\ [][NextPost]_vars

InitPair ==
    /\ StoreInit /\ ConcIdle /\ ParseIdle /\ Idle /\ DailyIdle
    /\ source_weights = weights_of(RSS_SOURCES)
    /\ entry = MakeNews("a", "b", "", [source |-> "Habr", language |-> "ru",
                                       published_at |-> 0, parsed_at |-> 0, rating |-> 0])
    /\ length_arg = 0 /\ rnow = 0 /\ ratings = << >>
    /\ scall = NoCall /\ sret = << >>
    /\ PairInit

SpecPair == InitPair /\ [][NextPair]_vars

InitDays ==
    /\ StoreInit /\ ConcIdle /\ ParseIdle /\ Idle /\ RatingIdle
    /\ tod = 0 /\ wait = -1
    /\ \E now \in StartTimes : dloop = NotStarted(now)

SpecDays == InitDays /\ [][NextDays]_vars

\* Every await of a loop completes: the requests of a fetch have a timeout,
\* a delivery returns, a sleep ends.  Nothing obliges start() or stop() to
\* be called.
\* An exception outside the cycle's try block is transient: a loop that keeps
\* running does not find the target computation, or the entry of the cycle,
\* failing every single time.
SpecSchedFair ==
    /\ InitSched
    /\ [][NextSched]_vars
    /\ \A i \in Starts :
          /\ WF_vars(LoopStep(i))
          /\ SF_vars(Wake(i) /\ sleepArg'[i].kind = "daily")
          /\ SF_vars(Wake(i) /\ spc'[i] = "fetching")

(***************************************************************************)
(* Properties of the store (SpecStore).                                    *)
(***************************************************************************)
TwoCallsSameArticle ==
    /\ prev.op = "add_news"
    /\ last.op = "add_news"
    /\ SameArticle(prev.news, last.news)

CollidesWith(n, r) ==
    r.title = n.title \/ r.link = n.link \/ r.content_hash = n.content_hash

\* C1 (as stated): for any store state, two successive add_news calls with
\* the same (title, link, description) give exactly one id and one None.
C1_ExactlyOneInserted ==
    TwoCallsSameArticle =>
        \/ prev.ret # None /\ last.ret = None
        \/ prev.ret = None /\ last.ret # None

\* C1 (amended): two successive add_news calls with the same (title, link,
\* description) have the same content_hash whatever their metadata, the second
\* call returns None, and the first returns the id of the row it stored unless
\* a stored row collides with it on title, link or content_hash, in which
\* case it returns None too.
C1_AtMostOneInserted ==
    TwoCallsSameArticle =>
        /\ prev.news.content_hash = last.news.content_hash
        /\ last.ret = None
        /\ ~prev.raised /\ ~last.raised
        /\ prev.ret = None => \E r \in rows : CollidesWith(prev.news, r)
        /\ prev.ret # None => NewRow(prev.news, prev.ret) \in rows

C1_Witness ==
    /\ TwoCallsSameArticle
    /\ prev.news.source # last.news.source
    /\ prev.news.rating # last.news.rating
    /\ prev.ret # None
    /\ last.ret = None

C1_WitnessBothRejected ==
    /\ TwoCallsSameArticle
    /\ prev.ret = None
    /\ last.ret = None

UniqueRows ==
    \A r1, r2 \in rows :
        (r1.title = r2.title \/ r1.link = r2.link \/ r1.content_hash = r2.content_hash)
            => r1 = r2

\* In a step that completes an add_news call, last' is that call and rows
\* are the rows it found.
DuplicateIsNoOp ==
    (last'.op = "add_news" /\ \E r \in rows : CollidesWith(last'.news, r))
        => /\ last'.ret = None
           /\ ~last'.raised
           /\ rows' = rows

\* C2: in every reachable store state title, link and content_hash are each
\* unique among the stored rows, and an add_news whose entry collides with a
\* stored row on one of them returns None, raises nothing and leaves the rows
\* as they were.
C2_UniqueAndNoOp ==
    /\ []UniqueRows
    /\ [][DuplicateIsNoOp]_vars

C2_Witness ==
    /\ last.op = "add_news"
    /\ last.ret = None
    /\ Cardinality(rows) = 2
    /\ \E r \in rows : r.title = last.news.title /\ r.content_hash # last.news.content_hash

\* C4: a stored row and an offered entry with the same content_hash are the
\* same article: their title, link and description are equal.
C4_SameHashSameArticle ==
    \A r \in rows :
        (last.op = "add_news" /\ r.content_hash = last.news.content_hash)
            => SameArticle(r, last.news)

(***************************************************************************)
(* Properties of concurrent callers (SpecConc).                            *)
(***************************************************************************)
SameFingerprint == \A c, d \in Callers : cnews[c].content_hash = cnews[d].content_hash

Inserted == {c \in Callers : cret[c] # None}

RowsOfFingerprint(h) == {r \in rows : r.content_hash = h}

FreshInBase ==
    \A c \in Callers : \A r \in base : ~CollidesWith(cnews[c], r)

SourceFailed(s) == served[s] = AllFailed
SourceRaised(s) == served[s].crash
SourceDecoded(s) == served[s].text = "xml" /\ ~served[s].crash

RECURSIVE DecodedFrom(_)
\* The entries decoded from the bodies served to sources s, s+1, ..., in
\* configuration order; a source that failed or raised gives none.
DecodedFrom(s) ==
    IF s > Len(RSS_SOURCES) THEN << >>
    ELSE (IF SourceDecoded(s)
          THEN DecodeEntries(served[s].entries, RSS_SOURCES[s])
          ELSE << >>) \o DecodedFrom(s + 1)

\* C5: a run in which some sources fail every fetch attempt or have their
\* task raise returns the merged list of the entries decoded from the sources
\* that succeeded; no exception leaves parse_all_sources and a failing source
\* contributes no entry.
C5_PartialFailure ==
    ppc = "returned" =>
        /\ ~praised
        /\ all_news = DecodedFrom(1)
        /\ \A s \in SourceIds :
               (SourceFailed(s) \/ SourceRaised(s)) =>
                   \A i \in DOMAIN all_news : all_news[i].source # RSS_SOURCES[s].name

C5_Witness ==
    /\ ppc = "returned"
    /\ \E s \in SourceIds : SourceFailed(s) /\ attempt[s] = MAX_RETRIES - 1
    /\ \E s \in SourceIds : SourceRaised(s)
    /\ \E s \in SourceIds : SourceDecoded(s) /\ Len(served[s].entries) = 3
    /\ Len(all_news) = 2

(***************************************************************************)
(* The scheduler's loops.                                                  *)
(***************************************************************************)
InCycle(i) == spc[i] \in {"fetching", "delivering"}

\* C6: cycles run strictly sequentially, whatever start() and stop() calls
\* are made: at no time are two executions of _send_scheduled_digest in
\* flight.
C6_CyclesSequential ==
    \A i, j \in Starts : InCycle(i) /\ InCycle(j) => i = j

CycleStarts(i) == spc[i] # "fetching" /\ spc'[i] = "fetching"

\* C7: once stop() has cleared the flag, a loop finishes its cycle or sleep
\* and exits: no loop starts a cycle while the flag is clear, in interval
\* mode and in daily mode.
C7_NoCycleAfterStop ==
    [][\A i \in Starts : CycleStarts(i) => is_running']_vars

\* The cycle of loop i has failed and the loop sleeps after it.
SleepsAfterFailedCycle(i, loop) ==
    /\ loopOf[i] = loop
    /\ spc[i] = "sleeping"
    /\ failed[i] \in CycleFailures \cup {"deliver"}

\* C8: in interval mode the sleep that follows a failed cycle (fetching,
\* ranking, persisting or delivering failed) lasts 60 seconds, not the
\* configured interval.
C8_IntervalBackoff ==
    \A i \in Starts :
        SleepsAfterFailedCycle(i, "interval") => sleepArg[i] = [kind |-> "backoff", secs |-> 60]

\* C9: in daily mode a failed cycle is followed by a sleep of 3600 seconds,
\* before the next daily target is computed.
C9_DailyBackoff ==
    \A i \in Starts :
        SleepsAfterFailedCycle(i, "daily") => sleepArg[i] = [kind |-> "backoff", secs |-> 3600]

LoopActive(i) == spc[i] \notin {"new", "returned"}

\* C10: no error ends a loop.  A start() call has returned only in manual
\* mode or after stop() was called; and while stop() has not been called, a
\* loop in which a fetch, the ranking, an insert, the delivery, the entry of
\* the cycle or the target computation has failed is still running and
\* eventually starts another cycle.
C10_NoErrorEndsLoop ==
    /\ [](\A i \in Starts : spc[i] = "returned" => mode = "manual" \/ stopCalled)
    /\ \A i \in Starts :
          [](failed[i] # "none" /\ ~stopCalled
                => LoopActive(i) /\ <>(spc[i] = "fetching" \/ stopCalled))

\* A loop sleeps after a cycle whose insert failed, a second loop sleeps the
\* handler's backoff, and stop() has not been called.
C10_Witness ==
    /\ ~stopCalled
    /\ spc[1] = "sleeping" /\ failed[1] = "insert" /\ rows # {}
    /\ spc[2] = "sleeping" /\ failed[2] \in {"loop", "target"}

(***************************************************************************)
(* The cycle and its delivery.                                             *)
(***************************************************************************)
\* The cycle of loop i is over with this step.
CycleEnds(i) == InCycle(i) /\ ~InCycle(i)'

\* C11 (as stated): every scheduler cycle invokes post_digest exactly once.
C11_ExactlyOnePost ==
    [][\A i \in Starts : CycleEnds(i) => calls[i] = 1]_vars

\* The cycle of loop i ends with this step before it reached post_digest:
\* the fetch raised or returned no entry, the ranking raised, an insert
\* raised.
EndsUndelivered(i) ==
    \/ FetchRaises(i)
    \/ \E now \in RankNows : FetchReturns(i, << >>, now, FALSE, 0)
    \/ \E news_list \in ParseOutcomes, now \in RankNows :
          FetchReturns(i, news_list, now, TRUE, 0)
    \/ \E news_list \in ParseOutcomes, now \in RankNows, failAt \in 1..5 :
          FetchReturns(i, news_list, now, FALSE, failAt)

\* top holds the first four (all, when there are fewer) of the entries of
\* news_list in descending order of rating.
IsTopOf(top, news_list) ==
    /\ Len(top) = (IF Len(news_list) < 4 THEN Len(news_list) ELSE 4)
    /\ \A k \in 1..Len(top) - 1 : top[k].rating >= top[k + 1].rating
    /\ \A k \in DOMAIN top :
          \E n \in DOMAIN news_list : [top[k] EXCEPT !.rating = 0] = news_list[n]

\* The label post_digest is to get for the configured interval.
ExpectedPeriod ==
    CASE interval = "hourly" -> [text |-> "last hour", hours |-> 1]
      [] interval = "6hours" -> [text |-> "last hours", hours |-> 6]
      [] interval = "daily"  -> [text |-> "today", hours |-> 0]
      [] interval = "weekly" -> [text |-> "last hour", hours |-> 1]

\* C11 (amended): a cycle calls post_digest at most once, with the first
\* TOP_NEWS_COUNT entries of its ranked list and the period label of the
\* interval; it makes the call unless the fetch raised or returned nothing
\* or the ranking or an insert raised, and then it makes none.
C11_AtMostOnePost ==
    /\ [](\A i \in Starts :
            /\ calls[i] <= 1
            /\ spc[i] = "delivering" =>
                 /\ calls[i] = 1
                 /\ period[i] = ExpectedPeriod
                 /\ \E news_list \in ParseOutcomes \ {<< >>} : IsTopOf(top_news[i], news_list))
    /\ [][\A i \in Starts :
            /\ CycleEnds(i) => (calls[i] = 0 <=> EndsUndelivered(i))
            /\ calls'[i] > calls[i] => spc[i] = "fetching" /\ spc'[i] = "delivering"]_vars

\* A cycle that fetched five entries is delivering the first four.
C11_Witness ==
    \E i \in Starts :
        spc[i] = "delivering" /\ calls[i] = 1 /\ Len(top_news[i]) = 4 /\ interval = "6hours"

\* The lists post_digest is called with: those of the cycles, and the empty
\* list, which a manual trigger may pass.
DigestLists ==
    {<< >>} \cup { TopN(rank_news_list(news_list, now)) :
                     news_list \in ParseOutcomes \ {<< >>}, now \in RankNows }

\* The sleep that follows a cycle when nothing went wrong.
IsNormalSleep(i) ==
    IF loopOf[i] = "interval"
    THEN /\ sleepArg[i].kind = "interval"
         /\ sleepArg[i].secs = (CASE interval = "hourly" -> 3600
                                  [] interval = "6hours" -> 21600
                                  [] interval = "weekly" -> 3600)
    ELSE /\ sleepArg[i].kind = "daily"
         /\ sleepArg[i].secs \in {0, 82800}

\* C12: post_digest returns None, and never raises, for every entry list and
\* every failure of the formatting or of the sending; and a loop whose
\* delivery failed has not ended (unless stop() was called) and sleeps the
\* interval, or until the next daily target, as after any other cycle.
C12_DeliveryFailureSwallowed ==
    /\ \A news_list \in DigestLists, failure \in {"none", "format", "send"} :
          /\ post_digest(news_list, failure) \in {"None", "message"}
          /\ (news_list = << >> \/ failure # "none") => post_digest(news_list, failure) = "None"
    /\ \A i \in Starts :
          /\ failed[i] # "delivery raised"
          /\ failed[i] = "deliver" =>
               /\ spc[i] \in {"sleeping", "returned"}
               /\ spc[i] = "returned" => stopCalled
               /\ spc[i] = "sleeping" => IsNormalSleep(i)

\* After a failed delivery one loop sleeps its six hours, the other loop
\* sleeps after a delivery that succeeded.
C12_Witness ==
    /\ interval = "6hours" /\ ~stopCalled
    /\ spc[1] = "sleeping" /\ failed[1] = "deliver" /\ sleepArg[1].secs = 21600
    /\ spc[2] = "sleeping" /\ failed[2] = "none"

\* C13: in manual mode start() returns at once and schedules nothing: the
\* flag stays false, no loop is entered, and the scheduler starts no cycle,
\* no sleep, no insert and no delivery.
C13_ManualModeIdle ==
    mode = "manual" =>
        /\ ~is_running
        /\ rows = {}
        /\ \A i \in Starts :
              /\ spc[i] \in {"new", "returned"}
              /\ loopOf[i] = "none"
              /\ sleepArg[i] = NoSleep
              /\ calls[i] = 0 /\ top_news[i] = << >>

\* Both start() calls have returned in manual mode.
C13_Witness ==
    mode = "manual" /\ \A i \in Starts : spc[i] = "returned"

(***************************************************************************)
(* The interval loop.                                                      *)
(***************************************************************************)
\* SCHEDULE_INTERVALS[interval], 3600 for a key it does not hold.
ConfiguredInterval ==
    [kind |-> "interval",
     secs |-> (CASE interval = "hourly" -> 3600
                 [] interval = "6hours" -> 21600
                 [] interval = "weekly" -> 3600
                 [] OTHER -> 86400)]

\* Loop i takes a step.
Moves(i) == spc'[i] # spc[i] \/ sleepArg'[i] # sleepArg[i]

\* C14: in interval mode, while the flag is set and no exception occurs, the
\* first cycle starts in start() itself with no sleep before it, a cycle is
\* followed by one sleep of the configured interval, that sleep is followed
\* by the next cycle, and a cycle starts nowhere else.
C14_IntervalAlternation ==
    [][\A i \in Starts :
          loopOf'[i] = "interval" =>
            /\ (spc[i] = "new" /\ failed'[i] = "none") => spc'[i] = "fetching"
            /\ (CycleEnds(i) /\ failed'[i] = "none") =>
                  spc'[i] = "sleeping" /\ sleepArg'[i] = ConfiguredInterval
            /\ (spc[i] = "sleeping" /\ Moves(i) /\ is_running /\ failed'[i] = "none") =>
                  spc'[i] = "fetching"
            /\ (CycleStarts(i) /\ failed[i] = "none") =>
                  \/ spc[i] = "new"
                  \/ spc[i] = "sleeping" /\ sleepArg[i] = ConfiguredInterval]_vars

\* A loop sleeps its six hours after a cycle that delivered, the flag set.
C14_Witness ==
    /\ interval = "6hours" /\ is_running
    /\ spc[1] = "sleeping" /\ failed[1] = "none" /\ sleepArg[1].secs = 21600
    /\ rows # {}

(***************************************************************************)
(* The daily delay.                                                        *)
(***************************************************************************)
\* C15: the delay is target minus now while the time of day has not passed
\* 09:00 and target plus 24 h minus now once it has; it is never negative
\* and below 24 h; at 10:00 it is 23 hours.
C15_DailyDelay ==
    wait # -1 =>
        /\ 0 <= wait /\ wait < 24 * 3600
        /\ tod <= 9 * 3600 => wait = 9 * 3600 - tod
        /\ tod > 9 * 3600 => wait = 9 * 3600 + 24 * 3600 - tod
        /\ tod = 10 * 3600 => wait = 23 * 3600

\* The delay computed at 10:00.
C15_Witness == tod = 10 * 3600 /\ wait = 23 * 3600

(***************************************************************************)
(* The rating.                                                             *)
(***************************************************************************)
\* C19: whatever the entry, the weight of its source (0 to 10, or a source
\* the engine does not know) and the article length, calculate_rating
\* returns a value from 0 to 10 (0 to 1000 hundredths).
C19_RatingInRange ==
    \A k \in DOMAIN ratings : 0 <= ratings[k] /\ ratings[k] <= 1000

\* A fresh entry of a source of weight 10 with six keywords and an article
\* of 500 words is rated 10.0; the engine was asked about a known source.
C19_Witness ==
    /\ ratings # << >> /\ ratings[1] = 1000
    /\ entry.source \in DOMAIN source_weights /\ length_arg = 500

\* C20: for a fixed now the rating depends only on the entry's title,
\* description, source and published_at, the source weights and the article
\* length: a second call, made after the first stored its result in
\* news.rating and after the entry was saved, returns the same value, and
\* that value is the one the entry gets with any other earlier rating.
C20_RatingDeterministic ==
    /\ Len(ratings) = 2 => ratings[1] = ratings[2]
    /\ \A k \in DOMAIN ratings, earlier \in EarlierRatings :
          ratings[k] = engine_rating(source_weights, [entry EXCEPT !.rating = earlier],
                                     length_arg, rnow)

\* Two calls were made, the entry was saved between them, and the second
\* call found in news.rating a value other than the one the first found.
C20_Witness ==
    /\ Len(ratings) = 2
    /\ rows # {}
    /\ ratings[1] \notin EarlierRatings

(***************************************************************************)
(* The barrier of a run, and fetch_feed.                                   *)
(***************************************************************************)
AllTasksDone == \A s \in SourceIds : tpc[s] = "done"

\* C16: within one run the merged list exists, and ranking, the store
\* inserts and the top-N selection of its caller happen, only once every
\* per-source task is done, whether it got a body or used up its attempts;
\* a task that is in a request or between two attempts holds all of it back.
C16_Barrier ==
    /\ [](/\ ppc \in {"returned", "used", "top saved"} =>
                AllTasksDone /\ all_news = MergeResults(tres, 1)
          /\ ppc \in {"idle", "gathering"} => all_news = << >> /\ selected = << >>
          /\ selected # << >> => ppc \in {"used", "top saved"})
    /\ [][(rows' # rows \/ selected' # selected \/ all_news' # all_news) => AllTasksDone]_vars

\* A run whose list was ranked, saved and cut to the top news, one of whose
\* sources needed a second attempt and one of whose sources failed for good.
C16_Witness ==
    /\ ppc = "used" /\ selected # << >> /\ rows # {}
    /\ \E s \in SourceIds : attempt[s] > 0 /\ served[s] \notin {AllFailed, NotServed}
    /\ \E s \in SourceIds : served[s] = AllFailed

\* The sleeps of a fetch_feed that has started n + 1 attempts.
SleepsBefore(n) == [k \in 1 .. n |-> RETRY_DELAY]

\* C17: fetch_feed makes at most MAX_RETRIES attempts and returns: the body
\* of the first attempt answering 200, with no attempt after it, or, after
\* MAX_RETRIES failed attempts (timeout, other status, other exception),
\* the empty string without raising; one sleep of RETRY_DELAY lies between
\* two attempts and none follows the last.
C17_FetchFeedBounded ==
    /\ [](\A s \in SourceIds :
            /\ attempt[s] \in 0 .. MAX_RETRIES - 1
            /\ tpc[s] \in {"new", "get", "done"} => slept[s] = SleepsBefore(attempt[s])
            /\ tpc[s] = "retry_sleep" => slept[s] = SleepsBefore(attempt[s] + 1)
            /\ tpc[s] = "done" /\ served[s] = AllFailed =>
                  /\ attempt[s] = MAX_RETRIES - 1
                  /\ content[s] = ""
                  /\ tres[s] = [kind |-> "list", news |-> << >>]
            /\ tpc[s] = "done" /\ served[s] # AllFailed =>
                  /\ served[s] \in Bodies
                  /\ content[s] = served[s].text
            /\ tpc[s] # "done" => content[s] = NotReturned)
    /\ [][\A s \in SourceIds :
            tpc[s] = "done" =>
               /\ tpc'[s] = "done" /\ attempt'[s] = attempt[s]
               /\ slept'[s] = slept[s] /\ content'[s] = content[s]]_vars
    /\ \A s \in SourceIds : (tpc[s] = "get") ~> (tpc[s] = "done")

\* One fetch_feed returned the body of its third attempt after two sleeps,
\* another one returned '' after three failed attempts and two sleeps.
C17_Witness ==
    /\ \E s \in SourceIds :
          /\ tpc[s] = "done" /\ served[s] \in Bodies /\ served[s].text = "xml"
          /\ attempt[s] = 2 /\ slept[s] = <<RETRY_DELAY, RETRY_DELAY>>
    /\ \E s \in SourceIds :
          /\ tpc[s] = "done" /\ served[s] = AllFailed
          /\ slept[s] = <<RETRY_DELAY, RETRY_DELAY>> /\ content[s] = ""

\* C18 as stated: two fetches whose attempts all failed, the last ones in
\* different ways, return different values to their callers.
C18_KindCarried ==
    \A s, t \in SourceIds :
        (served[s] = AllFailed /\ served[t] = AllFailed /\ fkind[s] # fkind[t])
           => content[s] # content[t] /\ tres[s] # tres[t]

\* C18: when every attempt failed, fetch_feed returns the empty string and
\* _parse_source an empty list, whatever the kinds of the failures, which
\* are only logged: the caller gets the same value for a timeout, a status
\* and another exception, and the same as for a 200 answer with an empty
\* body.
C18_KindNotCarried ==
    /\ \A s \in SourceIds :
          served[s] = AllFailed =>
             /\ fkind[s] \in AttemptFailures
             /\ content[s] = ""
             /\ tres[s] = [kind |-> "list", news |-> << >>]
    /\ \A s, t \in SourceIds :
          (tpc[s] = "done" /\ tpc[t] = "done" /\ served[s] = AllFailed /\ served[t].text = "")
             => content[s] = content[t] /\ tres[s] = tres[t]

\* Three fetches are over: one ended in a timeout, one in a status other
\* than 200, one in a 200 answer with an empty body.
C18_Witness ==
    \E s, t, u \in SourceIds :
        /\ served[s] = AllFailed /\ fkind[s] = "timeout"
        /\ served[t] = AllFailed /\ fkind[t] = "status"
        /\ tpc[u] = "done" /\ served[u] = NoBody

(***************************************************************************)
(* The component scores.                                                   *)
(***************************************************************************)
\* C21: of two entries scored at the same now, the one published at the
\* strictly more recent instant never gets the lower freshness score,
\* whatever offsets the two timestamps carry.
C21_FreshnessMonotone ==
    (scall.fn = "freshness"
       /\ instant_of(scall.a, scall.zone) > instant_of(scall.b, scall.zone))
      => sret[1] >= sret[2]

\* C29: the freshness score is 1.0 for an age below 1 h (a negative age
\* included), 0.9 below 3 h, 0.7 below 6 h, 0.5 below 12 h, 0.3 below 24 h
\* and 0.1 from 24 h on, age being now minus the timestamp's reading with
\* its offset dropped.
C29_FreshnessSteps ==
    scall.fn = "freshness" =>
       LET age == scall.now - scall.a.wall IN
       /\ age < 3600 <=> sret[1] = 10
       /\ (3600 <= age /\ age < 10800) <=> sret[1] = 9
       /\ (10800 <= age /\ age < 21600) <=> sret[1] = 7
       /\ (21600 <= age /\ age < 43200) <=> sret[1] = 5
       /\ (43200 <= age /\ age < 86400) <=> sret[1] = 3
       /\ 86400 <= age <=> sret[1] = 1

\* Entries aged exactly 1 h and exactly 24 h were scored 0.9 and 0.1.
C29_Witness ==
    /\ scall.fn = "freshness"
    /\ scall.now - scall.a.wall = 3600 /\ sret[1] = 9
    /\ scall.now - scall.b.wall = 86400 /\ sret[2] = 1

\* C30 as stated: 500 to 2000 words give 1.0, 300 to 499 give 0.8, 2000 to
\* 3000 give 0.8, 100 to 299 give 0.5, 0 gives 0.5, every other count 0.3.
C30_LengthTable ==
    scall.fn = "length" =>
       LET n == scall.article_length IN
       /\ (500 <= n /\ n <= 2000) => sret[1] = 10
       /\ (300 <= n /\ n <= 499) => sret[1] = 8
       /\ (2000 <= n /\ n <= 3000) => sret[1] = 8
       /\ (100 <= n /\ n <= 299) => sret[1] = 5
       /\ n = 0 => sret[1] = 5
       /\ (n < 0 \/ (1 <= n /\ n <= 99) \/ n > 3000) => sret[1] = 3

\* C30: the length score is 1.0 for 500 to 2000 words, 0.8 for 300 to 499
\* and for 2001 to 3000, 0.5 for 100 to 299 and for 0 (unknown), and 0.3
\* for every other count (1 to 99, above 3000, negative): exactly one of
\* the buckets holds each count.
C30_LengthBuckets ==
    scall.fn = "length" =>
       LET n == scall.article_length IN
       /\ (500 <= n /\ n <= 2000) <=> sret[1] = 10
       /\ ((300 <= n /\ n <= 499) \/ (2001 <= n /\ n <= 3000)) <=> sret[1] = 8
       /\ ((100 <= n /\ n <= 299) \/ n = 0) <=> sret[1] = 5
       /\ (n < 0 \/ (1 <= n /\ n <= 99) \/ n > 3000) <=> sret[1] = 3

\* An article of exactly 2000 words was scored 1.0.
C30_Witness ==
    scall.fn = "length" /\ scall.article_length = 2000 /\ sret = <<10>>

\* The occurrences of keyword in text from position k on that are whole
\* words: no word character stands directly before or behind them.
WholeWordAt(text, keyword, k) ==
    /\ k + Len(keyword) - 1 <= Len(text)
    /\ SubSeq(text, k, k + Len(keyword) - 1) = keyword
    /\ ~WordAt(text, k - 1)
    /\ ~WordAt(text, k + Len(keyword))

WholeWordMatches(text) ==
    Cardinality({ <<j, k>> \in (DOMAIN RELEVANCE_KEYWORDS) \X (DOMAIN text) :
                    WholeWordAt(lower(text), lower(RELEVANCE_KEYWORDS[j]), k) })

\* C22: the keyword score is min(1, count / 5), count being the number of
\* whole-word, case-insensitive matches of the vocabulary in title, a
\* space and description.
C22_KeywordScore ==
    scall.fn = "keyword" =>
       LET count == WholeWordMatches(scall.title \o <<" ">> \o scall.description) IN
       sret[1] = IF count >= 5 THEN 10 ELSE 2 * count

\* Position of every output entry in the input list.
IsStableRanking(in, out) ==
    /\ Len(out) = Len(in)
    /\ \E p \in [DOMAIN out -> DOMAIN in] :
          /\ \A i, j \in DOMAIN out : p[i] = p[j] => i = j
          /\ \A i \in DOMAIN out : [out[i] EXCEPT !.rating = 0] = [in[p[i]] EXCEPT !.rating = 0]
          /\ \A i, j \in DOMAIN out :
                i < j => \/ out[i].rating > out[j].rating
                         \/ out[i].rating = out[j].rating /\ p[i] < p[j]

\* C23: rank_news_list returns its input entries, each once, in descending
\* order of rating, entries of equal rating in the order of the input.
C23_StableDescending ==
    scall.fn = "rank" => IsStableRanking(scall.news_list, sret)

\* Two entries of equal rating came back in their input order behind an
\* entry that stood between them in the input.
C23_Witness ==
    /\ scall.fn = "rank" /\ Len(sret) = 3
    /\ scall.news_list[1].title = "a" /\ scall.news_list[3].title = "ab"
    /\ sret[1].title = "ai code" /\ sret[2].title = "a" /\ sret[3].title = "ab"
    /\ sret[2].rating = sret[3].rating

(***************************************************************************)
(* The pipeline on two entries.                                            *)
(***************************************************************************)
\* C24: the first run on the empty store ranks A strictly above B and both
\* inserts return an id; the second run of the same pair gets None for both
\* and leaves the store as it was.
C24_Scenario ==
    /\ Len(runs) >= 1 =>
          /\ Len(runs[1].ranked) = 2
          /\ runs[1].ranked[1].source = "Habr" /\ runs[1].ranked[2].source = "Elsewhere"
          /\ runs[1].ranked[1].rating > runs[1].ranked[2].rating
          /\ runs[1].before = {}
          /\ runs[1].rets = <<1, 2>>
    /\ Len(runs) = 2 =>
          /\ runs[2].rets = <<None, None>>
          /\ rows = runs[2].before

C25_WitnessScript ==
    ppc = "top saved" /\ Len(all_news) = 6 /\ Len(offered) = TOP_NEWS_COUNT

(***************************************************************************)
(* Stored rows, and the mode of the scheduler.                             *)
(***************************************************************************)
\* C26: whatever the cycles do, a stored row stays in the store as it was
\* inserted: the rows only grow, and the row of an id keeps its rating,
\* published_at, parsed_at and source when a later cycle offers the same
\* article with another rating.
C26_RowsOnlyGrow ==
    [][/\ rows \subseteq rows'
       /\ \A r \in rows, q \in rows' : q.id = r.id => q = r]_vars

\* A cycle delivers an entry that an earlier cycle inserted: the stored row
\* carries the rating of that cycle, the entry another one.
C26_Witness ==
    \E i \in Starts, r \in rows :
        /\ spc[i] = "delivering"
        /\ \E k \in DOMAIN top_news[i] :
              /\ top_news[i][k].content_hash = r.content_hash
              /\ top_news[i][k].title = r.title /\ top_news[i][k].link = r.link
              /\ top_news[i][k].source = r.source
              /\ top_news[i][k].published_at = r.published_at
              /\ top_news[i][k].rating # r.rating

\* C27: mode and interval are those of the construction for good, and a
\* start() call that has begun is in no loop when mode is 'manual', in the
\* daily loop when mode is not 'manual' and interval is 'daily', in the
\* interval loop otherwise; it stays in that loop and sleeps only the
\* sleeps of that loop.
C27_OneLoopPerStart ==
    /\ [](\A i \in Starts :
            /\ spc[i] = "new" => loopOf[i] = "none"
            /\ spc[i] # "new" =>
                  loopOf[i] = (CASE mode = "manual" -> "none"
                                 [] mode # "manual" /\ interval = "daily" -> "daily"
                                 [] OTHER -> "interval")
            /\ sleepArg[i].kind = "daily" => loopOf[i] = "daily"
            /\ sleepArg[i].kind = "interval" => loopOf[i] = "interval"
            /\ sleepArg[i] = [kind |-> "backoff", secs |-> 60] => loopOf[i] = "interval"
            /\ sleepArg[i] = [kind |-> "backoff", secs |-> 3600] => loopOf[i] = "daily")
    /\ [][/\ mode' = mode /\ interval' = interval
          /\ \A i \in Starts : loopOf[i] # "none" => loopOf'[i] = loopOf[i]]_vars

\* In auto mode with interval 'daily' a start() call sleeps until the next
\* target after stop() was called and a cycle of it has saved rows.
C27_Witness ==
    /\ mode = "auto" /\ interval = "daily" /\ stopCalled /\ rows # {}
    /\ \E i \in Starts : loopOf[i] = "daily" /\ spc[i] = "sleeping" /\ sleepArg[i].kind = "daily"

(***************************************************************************)
(* What post_digest sends.                                                 *)
(***************************************************************************)
\* C28: the entries post_digest hands to the send are the first
\* min(TOP_NEWS_COUNT, n) entries of the n ranked ones, in rank order, so
\* none left out is rated higher than one sent, also when the caller passed
\* the whole ranked list; for an empty list nothing is sent and None, the
\* failed delivery, is returned.
C28_SendsTopPrefix ==
    scall.fn = "post_digest" =>
       LET ranked_news == scall.ranked_news
           sent == sret[1]
           n == Len(ranked_news) IN
       /\ Len(sent) <= TOP_NEWS_COUNT
       /\ sent # << >> =>
             /\ Len(sent) = (IF n < TOP_NEWS_COUNT THEN n ELSE TOP_NEWS_COUNT)
             /\ \A k \in DOMAIN sent : sent[k] = ranked_news[k]
             /\ \A k \in DOMAIN sent, j \in DOMAIN ranked_news :
                   k < j => sent[k].rating >= ranked_news[j].rating
       /\ scall.failure # "format" /\ n > 0 => sent # << >>
       /\ scall.news_list = << >> => sent = << >> /\ sret[2] = "None"
       /\ sret[2] = "message" => sent # << >>

\* A manual trigger passed six ranked entries and four were sent.
C28_Witness ==
    /\ scall.fn = "post_digest" /\ Len(scall.news_list) = 6
    /\ Len(sret[1]) = TOP_NEWS_COUNT /\ sret[2] = "message"

\* post_digest was called with an empty list and returned None.
C28_WitnessEmpty ==
    scall.fn = "post_digest" /\ scall.news_list = << >> /\ sret = << << >>, "None" >>

(***************************************************************************)
(* Decoding of a payload (SpecParse).                                      *)
(***************************************************************************)
\* The entries of a feed whose processing does not raise, in feed order.
WellFormed(entries) == SelectSeq(entries, LAMBDA e : ~e.malformed)

\* news is one News object per well-formed entry of the body, in feed order.
EntriesKept(news, body) ==
    LET good == WellFormed(body.entries) IN
    /\ Len(news) = Len(good)
    /\ \A i \in DOMAIN good :
           /\ news[i].title = good[i].title
           /\ news[i].link = good[i].link
           /\ news[i].description = good[i].summary

\* C31: decoding never raises for payload content: a source that was served
\* a body ends with a list, never with an exception; the list has every entry
\* of the feed whose processing did not raise, in feed order, and a body in
\* which no entry is found gives the empty list, the result of a source whose
\* fetch failed.
C31_DecodeNeverRaises ==
    \A s \in SourceIds :
        (tpc[s] = "done" /\ served[s] \in Bodies) =>
            /\ tres[s].kind = "list"
            /\ EntriesKept(tres[s].news, served[s])
            /\ served[s].entries = << >> =>
                   tres[s] = parse_source_result(NoBody, RSS_SOURCES[s])

\* The same without the first conjunct, for the bodies feedparser.parse
\* returns from.
EntriesKeptWhenParsed ==
    \A s \in SourceIds :
        (tpc[s] = "done" /\ served[s] \in Bodies /\ ~served[s].crash) =>
            /\ tres[s].kind = "list"
            /\ EntriesKept(tres[s].news, served[s])
            /\ served[s].entries = << >> =>
                   tres[s] = parse_source_result(NoBody, RSS_SOURCES[s])

(***************************************************************************)
(* The publish timestamp of a decoded entry (SpecScore).                   *)
(***************************************************************************)
DecodeCalled == scall # NoCall /\ scall.fn = "decode_entry"

\* The position in date_fields of the first populated field of e, 0 when it
\* has none.
FirstPopulated(e) ==
    IF \E k \in DOMAIN date_fields : populated(e, date_fields[k])
    THEN CHOOSE k \in DOMAIN date_fields :
             /\ populated(e, date_fields[k])
             /\ \A j \in 1 .. k - 1 : ~populated(e, date_fields[j])
    ELSE 0

\* e with no date field but its first populated one.
OnlyFirstPopulated(e) ==
    [e EXCEPT !.dates =
        [f \in {date_fields[k] : k \in {FirstPopulated(e)} \ {0}} |-> e.dates[f]]]

Yields(e, k) == populated(e, date_fields[k]) /\ ~date_parser_parse(e.dates[date_fields[k]]).raises

\* C32 as stated: a well-formed entry is accepted, and its timestamp is
\* decided by the value of its first populated date field alone (the entry
\* with only that field gets the same timestamp); without a populated field
\* it is the current time.
C32_FirstPopulatedDecides ==
    (DecodeCalled /\ ~scall.e.malformed) =>
        /\ Len(sret) = 1
        /\ sret = decode_entry(OnlyFirstPopulated(scall.e), RSS_SOURCES[1], ScoreNow)
        /\ FirstPopulated(scall.e) = 0 => sret[1].published_at = ScoreNow

\* C32, amended: a well-formed entry is accepted; its timestamp is the value
\* of the first field, in the order published, updated, created, that is
\* populated and that the date parser accepts, and the current time when no
\* field is.
C32_FirstParsedDecides ==
    (DecodeCalled /\ ~scall.e.malformed) =>
        /\ Len(sret) = 1
        /\ \/ \E k \in DOMAIN date_fields :
                 /\ Yields(scall.e, k)
                 /\ \A j \in 1 .. k - 1 : ~Yields(scall.e, j)
                 /\ sret[1].published_at =
                        date_parser_parse(scall.e.dates[date_fields[k]]).value
           \/ /\ \A k \in DOMAIN date_fields : ~Yields(scall.e, k)
              /\ sret[1].published_at = ScoreNow

\* The first populated field does not parse and a later one does.
C32_Witness ==
    /\ DecodeCalled /\ ~scall.e.malformed
    /\ FirstPopulated(scall.e) = 1
    /\ ~Yields(scall.e, 1)
    /\ Yields(scall.e, 3) /\ ~Yields(scall.e, 2)
    /\ sret[1].published_at = 172800

\* No field yields a timestamp, one of them being populated.
C32_WitnessNow ==
    /\ DecodeCalled /\ ~scall.e.malformed
    /\ FirstPopulated(scall.e) = 2
    /\ sret[1].published_at = ScoreNow

(***************************************************************************)
(* Duplicates within one run (SpecParse).                                  *)
(***************************************************************************)
\* The number of elements of list that are the article n.
Copies(list, n) == Cardinality({i \in DOMAIN list : SameArticle(list[i], n)})

\* The number of entries decoded from the body of source s.
DecodedCount(s) ==
    IF SourceDecoded(s) THEN Len(WellFormed(served[s].entries)) ELSE 0

\* The number of entries decoded from the body of source s that are the
\* article n.
DecodedCopies(s, n) ==
    IF SourceDecoded(s)
    THEN Cardinality({i \in DOMAIN served[s].entries :
                         /\ ~served[s].entries[i].malformed
                         /\ served[s].entries[i].title = n.title
                         /\ served[s].entries[i].link = n.link
                         /\ served[s].entries[i].summary = n.description})
    ELSE 0

RECURSIVE SumOver(_, _)
\* f[s] + f[s+1] + ... over the sources.
SumOver(f, s) == IF s > Len(RSS_SOURCES) THEN 0 ELSE f[s] + SumOver(f, s + 1)

\* The list a run returned has one element per decoded entry.
OneElementPerEntry ==
    ppc \in {"returned", "used", "top saved"} =>
        /\ Len(all_news) = SumOver([s \in SourceIds |-> DecodedCount(s)], 1)
        /\ \A i \in DOMAIN all_news :
               Copies(all_news, all_news[i]) =
                   SumOver([s \in SourceIds |-> DecodedCopies(s, all_news[i])], 1)

\* The ranked list of a cycle has every copy of every article.
EveryCopyRanked ==
    ppc = "used" =>
        /\ Len(offered) = Len(all_news)
        /\ \A i \in DOMAIN all_news :
               Copies(offered, all_news[i]) = Copies(all_news, all_news[i])

\* The cycle's insert loop: of the copies of an article, none but the first
\* offered is stored, and the first is stored unless a row or an entry
\* offered before it collides with it.
FirstOfferedWins ==
    (ppc = "returned" /\ ppc' = "used") =>
        \A i \in DOMAIN offered' :
            LET n == offered'[i]
                first == CHOOSE j \in DOMAIN offered' :
                             /\ SameArticle(offered'[j], n)
                             /\ \A k \in 1 .. j - 1 : ~SameArticle(offered'[k], n)
                stored == {r \in rows' \ rows : SameArticle(r, n)}
            IN  /\ Cardinality(stored) <= 1
                /\ \A r \in stored : r = NewRow(offered'[first], r.id)
                /\ (/\ ~UniqueViolation(n, rows)
                    /\ \A k \in 1 .. first - 1 : ~CollidesWith(n, offered'[k]))
                   => stored # {}

\* C33: no in-memory deduplication: the list parse_all_sources returns has
\* one element per decoded entry (its length is the sum of the per-source
\* counts), an article yielded by two sources or twice by one feed is in the
\* ranked list as often as it was yielded, and the store alone settles which
\* copy is kept: the first one offered.
C33_NoInMemoryDedup ==
    /\ []OneElementPerEntry
    /\ []EveryCopyRanked
    /\ [][FirstOfferedWins]_vars

\* Two sources yielded the same article, one of them twice; the ranked list
\* has the three copies and the store one row, from the copy ranked first.
C33_Witness ==
    /\ ppc = "used"
    /\ \E i \in DOMAIN offered :
           /\ Copies(offered, offered[i]) = 3
           /\ \E j \in DOMAIN offered :
                  SameArticle(offered[i], offered[j]) /\ offered[i].source # offered[j].source
           /\ Cardinality({r \in rows : SameArticle(r, offered[i])}) = 1
    /\ \E r \in rows : SameArticle(r, offered[1]) /\ r.source = offered[1].source
    /\ \E s \in SourceIds : Len(served[s].entries) = 2

(***************************************************************************)
(* The order of the merged list (SpecOrder).                               *)
(***************************************************************************)
\* The position in RSS_SOURCES of the source of n.
SourceIndex(n) == CHOOSE s \in SourceIds : RSS_SOURCES[s].name = n.source

FromSource(list, s) == SelectSeq(list, LAMBDA n : n.source = RSS_SOURCES[s].name)

\* The tasks finished in an order that is a permutation of the sources.
AllFinished ==
    /\ Len(finished) = Len(RSS_SOURCES)
    /\ \A s \in SourceIds : \E k \in DOMAIN finished : finished[k] = s

\* C34: the merged list of a run is in source configuration order and, within
\* a source, in feed order, in whatever order the tasks of the sources
\* finished: it is determined by the bodies served.  The entries a cycle
\* delivers are the top of the stable ranking of that list, so entries of
\* equal rating are delivered in configuration order of their sources under
\* every interleaving.
C34_MergeOrderFixed ==
    /\ ppc \in {"returned", "used"} =>
          /\ AllFinished
          /\ \A i, j \in DOMAIN all_news :
                 i < j => SourceIndex(all_news[i]) <= SourceIndex(all_news[j])
          /\ \A s \in SourceIds :
                 FromSource(all_news, s) =
                     IF SourceDecoded(s)
                     THEN DecodeEntries(served[s].entries, RSS_SOURCES[s])
                     ELSE << >>
    /\ ppc = "used" =>
          /\ selected = TopN(rank_news_list(DecodedFrom(1), RankNow))
          /\ selected = TopN(offered)
          /\ \A i, j \in DOMAIN offered :
                 (i < j /\ offered[i].rating = offered[j].rating) =>
                     SourceIndex(offered[i]) <= SourceIndex(offered[j])

\* The last source finished first and the first source last, after two
\* retries; both yielded an entry of the same rating, and the entry of the
\* first source is merged and delivered before the other.
C34_Witness ==
    /\ ppc = "used"
    /\ finished = <<3, 2, 1>>
    /\ attempt[1] = MAX_RETRIES - 1
    /\ Len(served[2].entries) = 3
    /\ all_news[1].source = RSS_SOURCES[1].name
    /\ \E i, j \in DOMAIN selected :
           /\ i < j
           /\ selected[i].rating = selected[j].rating
           /\ selected[i].source = RSS_SOURCES[1].name
           /\ selected[j].source = RSS_SOURCES[3].name

(***************************************************************************)
(* A loop after stop() (SpecSchedFair).                                    *)
(***************************************************************************)
SleepStarts(i) ==
    spc'[i] = "sleeping" /\ (spc[i] # "sleeping" \/ sleepArg'[i] # sleepArg[i])

\* The number of cycles loop i can still enter while the flag stays clear:
\* one when it is in the sleep to the daily target, none elsewhere.
CyclesLeft(i) ==
    IF spc[i] = "sleeping" /\ sleepArg[i].kind = "daily" THEN 1 ELSE 0

\* The number of sleeps loop i can still enter while the flag stays clear:
\* the interval loop sleeps once more after the cycle it is in, the daily
\* loop sleeps the handler's hour when the cycle it is still to call raises
\* on entry.
SleepsLeft(i) ==
    IF loopOf[i] = "interval" /\ InCycle(i) THEN 1
    ELSE IF spc[i] = "sleeping" /\ sleepArg[i].kind = "daily" THEN 1
    ELSE 0

\* A step with the flag clear before and after it: a loop enters a cycle or
\* a sleep only if it had one left, and then has one less; no step gives it
\* more.
BoundedAfterStop ==
    (~is_running /\ ~is_running') =>
        \A i \in Starts :
            LoopActive(i) =>
                /\ CycleStarts(i) => CyclesLeft(i) = 1 /\ CyclesLeft(i)' = 0
                /\ SleepStarts(i) => SleepsLeft(i) = 1 /\ SleepsLeft(i)' = 0
                /\ CyclesLeft(i)' <= CyclesLeft(i)
                /\ SleepsLeft(i)' <= SleepsLeft(i)

\* A start() call that has returned does nothing more, and while no loop is
\* running a step that is not a start() call leaves the store and the
\* positions of the loops as they are.
QuietOnceReturned ==
    /\ \A i \in Starts : spc[i] = "returned" => spc'[i] = "returned"
    /\ ((\A i \in Starts : ~LoopActive(i)) /\ spc' = spc) =>
           UNCHANGED <<rows, nextId, top_news, calls, sleepArg>>

\* C35: after stop(), as long as start() is not called again (the flag stays
\* clear), a loop enters at most one more cycle and at most one more sleep
\* and then returns, provided its awaits finish; a start() call that has
\* returned fetches, inserts and delivers nothing.
C35_StopTerminates ==
    /\ [][BoundedAfterStop]_vars
    /\ [][QuietOnceReturned]_vars
    /\ \A i \in Starts :
          (LoopActive(i) /\ ~is_running) ~> (~LoopActive(i) \/ is_running)

\* stop() was called during the sleep of the daily loop; the loop ran the
\* cycle that followed, stored its entries and returned.
C35_Witness ==
    /\ stopCalled /\ ~is_running
    /\ loopOf[1] = "daily" /\ spc[1] = "returned"
    /\ spc[2] = "new"
    /\ failed[1] = "none"
    /\ rows # {}

\* stop() was called during a cycle of the interval loop, which returned.
C35_WitnessInterval ==
    /\ stopCalled /\ ~is_running
    /\ loopOf[1] = "interval" /\ spc[1] = "returned"
    /\ spc[2] = "new"
    /\ rows # {}

(***************************************************************************)
(* Delivery and the outcome of the inserts (SpecSched).                    *)
(***************************************************************************)
\* Loop i hands its top news to post_digest in this step.
Delivers(i) == spc[i] = "fetching" /\ spc'[i] = "delivering"

\* C36: what a cycle delivers is the head of its ranked list, whatever its
\* add_news calls returned: the step that calls post_digest hands over the
\* first TOP_NEWS_COUNT entries of the list the cycle ranked and offered to
\* the store, those already stored by an earlier cycle included.
C36_DeliveryIgnoresInserts ==
    [][\A i \in Starts :
          Delivers(i) =>
              \E news_list \in ParseOutcomes, now \in RankNows :
                  LET ranked_news == rank_news_list(news_list, now)
                      ins == InsertAll(ranked_news, 1, rows, nextId, 0) IN
                  /\ rows' = ins.rows
                  /\ top_news'[i] = TopN(ranked_news)
                  /\ \A k \in DOMAIN top_news'[i] :
                         /\ top_news'[i][k] = ranked_news[k]
                         /\ UniqueViolation(ranked_news[k], rows) => ins.rets[k] = None]_vars

\* A cycle is delivering an entry that an earlier cycle stored with another
\* rating, next to an entry it has just stored itself.
C36_Witness ==
    \E i \in Starts :
        /\ spc[i] = "delivering"
        /\ \E k \in DOMAIN top_news[i], r \in rows :
               /\ SameArticle(r, top_news[i][k])
               /\ r.source = top_news[i][k].source
               /\ r.rating # top_news[i][k].rating
        /\ \E k \in DOMAIN top_news[i] : NewRow(top_news[i][k], nextId - 1) \in rows

(***************************************************************************)
(* An add_news call that raises within a cycle (SpecSched).                *)
(***************************************************************************)
\* The cycle of loop i ends in this step because an add_news call raised.
InsertRaises(i) == spc[i] = "fetching" /\ failed'[i] = "insert"

RECURSIVE StoredAfter(_, _, _)
\* The rows after add_news was called for the first n entries of ranked.
StoredAfter(ranked, n, rs) ==
    IF n = 0 THEN rs
    ELSE LET before == StoredAfter(ranked, n - 1, rs) IN
         IF UniqueViolation(ranked[n], before) THEN before
         ELSE before \cup {NewRow(ranked[n], nextId + Cardinality(before \ rs))}

\* Where a loop goes when its cycle has returned normally.
ContinuesNormally(i) ==
    IF loopOf[i] = "interval"
    THEN /\ spc'[i] = "sleeping"
         /\ sleepArg'[i] = [kind |-> "interval", secs |-> interval_seconds(interval)]
    ELSE \/ spc'[i] = "returned" /\ ~is_running
         \/ spc'[i] = "sleeping" /\ sleepArg'[i].kind = "daily" /\ is_running

\* C37: when an add_news call of a cycle raises an error that is no
\* uniqueness conflict, the entries offered before it are stored as far as
\* they were new and stay stored, the entries after it are not offered, the
\* cycle does not call post_digest, and the loop goes on as after a cycle
\* that returned normally: no handler of the loop runs.
C37_InsertErrorEndsCycle ==
    [][\A i \in Starts :
          InsertRaises(i) =>
              /\ \E news_list \in ParseOutcomes, now \in RankNows, failAt \in 1 .. 5 :
                     /\ failAt <= Len(news_list)
                     /\ rows' = StoredAfter(rank_news_list(news_list, now), failAt - 1, rows)
              /\ rows \subseteq rows'
              /\ spc'[i] # "delivering"
              /\ calls'[i] = 0 /\ top_news'[i] = << >>
              /\ ContinuesNormally(i)]_vars

\* The first cycle of the interval loop stored its first entry, the call for
\* a later entry raised, and the loop sleeps its interval with the other
\* article of the cycle not stored.
C37_Witness ==
    \E i \in Starts :
        /\ failed[i] = "insert"
        /\ spc[i] = "sleeping" /\ sleepArg[i].kind = "interval"
        /\ nextId = 2
        /\ \E r \in rows : r.title = RawA.title
        /\ ~\E r \in rows : r.title = RawB.title
        /\ calls[i] = 0

(***************************************************************************)
(* One cycle per day in daily mode (SpecDays).                             *)
(***************************************************************************)
\* t is an occurrence of DAILY_SEND_TIME, or the moment just after it at
\* which a sleep that was due then is over.
AtTarget(t) == \E late \in WakeDelays : t % Day = DAILY_SEND_TIME + late

\* The occurrence of DAILY_SEND_TIME on the day after the day of t.
NextDayTarget(t) == ((t \div Day) + 1) * Day + DAILY_SEND_TIME

\* A cycle in progress was called when a sleep ended that the loop computed
\* after the cycle before it had returned; it started at the target, and the
\* cycle before it started on an earlier day's target.
CycleAfterOwnSleep ==
    dloop.pc = "cycle" =>
        /\ dloop.computed_at >= 0
        /\ dloop.computed_at >= dloop.cycle_ended
        /\ dloop.wake_at >= dloop.computed_at
        /\ dloop.cycle_started >= dloop.wake_at
        /\ AtTarget(dloop.cycle_started)

OneCyclePerTarget ==
    (dloop.prev_started # -1 /\ AtTarget(dloop.prev_started)) =>
        dloop.cycle_started >= NextDayTarget(dloop.prev_started)

\* C38: in daily mode a cycle is called only when a sleep ends, a sleep the
\* loop computed after the previous cycle had returned; and a cycle that
\* started at the target instant is followed by no cycle before the target
\* instant of the next day.
C38_OneCyclePerDay ==
    /\ []CycleAfterOwnSleep
    /\ []OneCyclePerTarget
    /\ [][dloop'.pc = "cycle" /\ dloop.pc # "cycle" => dloop.pc = "sleeping"]_vars

\* A cycle started at 09:00 of day 0 and returned after midnight; the next
\* one is in progress, started at 09:00 of day 1.
C38_Witness ==
    /\ dloop.pc = "cycle"
    /\ dloop.prev_started = DAILY_SEND_TIME
    /\ dloop.cycle_ended = DAILY_SEND_TIME + 54001
    /\ dloop.computed_at = dloop.cycle_ended
    /\ dloop.cycle_started = Day + DAILY_SEND_TIME

\* A cycle that took a second, and the next one a day later.
C38_WitnessShort ==
    /\ dloop.pc = "cycle"
    /\ dloop.prev_started = DAILY_SEND_TIME
    /\ dloop.cycle_ended = DAILY_SEND_TIME + 1
    /\ dloop.cycle_started = Day + DAILY_SEND_TIME
====
